---------------------------- MODULE Spec2Model ----------------------------
(***************************************************************************)
(* raderbot: the SignalManager execution state machine, the Account       *)
(* ledger it drives, and the bot's signal channel and consumer task.      *)
(*                                                                         *)
(* Sources: src/src/strategy/signal.rs, src/src/bot.rs,                    *)
(* src/src/strategy/backer.rs.  The account, market and strategy modules   *)
(* are not among the sources; their operations are modelled from the       *)
(* specification (sections 3, 4.2, 4.4 and 6).                             *)
(***************************************************************************)
EXTENDS Integers, Sequences, FiniteSets, TLC

(***************************************************************************)
(* Bounds of the model.                                                    *)
(***************************************************************************)
\* number of positions one Account opens in one behaviour
MaxPositions == 2
\* largest max_open_orders a StrategySettings value takes (0 and 1 included)
MaxOpenOrders == 2
\* number of signals the strategy tasks send in one behaviour
MaxSent == 3
\* number of candles of a backtest range
MaxKlines == 3
\* number of trades of a list the metrics are computed of
MaxTrades == 4

(***************************************************************************)
(* Values.                                                                 *)
(***************************************************************************)
StrategyIds == {1, 2}
Symbols == {"BTC-USDT", "ETH-USDT"}
Long == "Long"
Short == "Short"
OrderSides == {Long, Short}
\* two prices tell a signal's embedded price from the Market's last price
Prices == {1, 2}

\* Option<T>: None is the empty sequence, Some(x) the one-element sequence.
None == << >>
Some(x) == << x >>
IsSome(o) == Len(o) = 1
Unwrap(o) == o[1]

\* Strategy binds one symbol (backer.rs:82 sends self.strategy.symbol).
SymbolOf(strategy_id) == IF strategy_id = 1 THEN "BTC-USDT" ELSE "ETH-USDT"

\* StrategySettings { max_open_orders, margin_usd, leverage }
SettingsChoices ==
    { [max_open_orders |-> n, margin_usd |-> ml[1], leverage |-> ml[2]] :
        n \in 0 .. MaxOpenOrders, ml \in { <<1000, 10>>, <<500, 5>> } }

\* SignalMessage { strategy_id, order_side, symbol, price, is_back_test }
\* sent by the strategies `ids`, with prices `prices` and replay flags `flags`
SignalMessages(ids, prices, flags) ==
    { [strategy_id |-> s, order_side |-> o, symbol |-> SymbolOf(s),
       price |-> p, is_back_test |-> b, timestamp |-> 0] :
        s \in ids, o \in OrderSides, p \in prices, b \in flags }

\* the settings the control surface builds (api/strategy.rs:31-35, 148-152)
ApiSettings == [max_open_orders |-> 2, margin_usd |-> 1000, leverage |-> 10]

VARIABLES
    account,                    \* Account: open positions, trades, id source
    active_strategy_settings,   \* SignalManager.active_strategy_settings
    market,                     \* Market: cached last price per symbol
    started,                    \* strategy ids already handed out
    last,                       \* the last handle_signal call (history)
    strategy_handles,           \* RaderBot.strategy_handles (key set)
    strategies,                 \* RaderBot.strategies (key set)
    tasks,                      \* strategy ids whose evaluation task runs
    channel,                    \* signals sent on strategy_tx, not yet received
    consumer,                   \* the consumer task spawned by RaderBot.init
    bot_call,                   \* the RaderBot call in progress, if any
    sent,                       \* number of signals sent so far
    applied,                    \* signals handed to handle_signal (history)
    back_test,                  \* the BackTest under study, if any
    mutations,                  \* what the last Account mutation did (history)
    algorithm,                  \* the Algorithm instances under study, if any
    file,                       \* the kline file of one key and time bucket
    streams                     \* BingXStreamManager and its polling tasks

core_vars == << account, active_strategy_settings, market, started, last >>
live_vars == << strategy_handles, strategies, tasks, channel, consumer,
                bot_call, sent, applied, back_test >>
vars == << core_vars, live_vars, mutations, algorithm, file, streams >>

(***************************************************************************)
(* Account ledger (specification section 4.4).                             *)
(***************************************************************************)
NewAccount == [positions |-> << >>, trades |-> << >>, next_id |-> 1]

\* Account.positions(): the open positions, in the order they were opened.
Positions(acct) == acct.positions

\* Account.trades()
Trades(acct) == acct.trades

\* Account.strategy_open_positions(strategy_id): the open set filtered by
\* owning strategy.
StrategyOpenPositions(acct, strategy_id) ==
    SelectSeq(acct.positions, LAMBDA p : p.strategy_id = strategy_id)

\* Account.open_position(symbol, margin, leverage, side, limit, price):
\* creates a Position and adds it to the open set.  The Position records its
\* owning strategy (specification section 3); the call site in
\* handle_signal passes no id, the association is the account module's.
OpenPosition(acct, symbol, margin_usd, leverage, order_side, limit_price, open_price, strategy_id) ==
    [acct EXCEPT
        !.positions = Append(@, [id |-> acct.next_id,
                                 symbol |-> symbol,
                                 order_side |-> order_side,
                                 open_price |-> open_price,
                                 margin_usd |-> margin_usd,
                                 leverage |-> leverage,
                                 strategy_id |-> strategy_id]),
        !.next_id = @ + 1]

\* Account.close_position(id, close_price): removes the Position from the
\* open set and appends a Trade; an id that is not open changes nothing.
ClosePosition(acct, id, close_price) ==
    LET hit == SelectSeq(acct.positions, LAMBDA p : p.id = id)
    IN  IF Len(hit) = 0 THEN acct
        ELSE [acct EXCEPT
                !.positions = SelectSeq(@, LAMBDA p : p.id # id),
                !.trades = Append(@, [position |-> hit[1],
                                      close_price |-> close_price])]

(***************************************************************************)
(* Market (specification section 6): last_price(symbol) -> optional price. *)
(***************************************************************************)
LastPrice(mkt, symbol) == mkt[symbol]

(***************************************************************************)
(* SignalManager (signal.rs).                                              *)
(***************************************************************************)
\* ActivePositions reading every open position, whoever owns it
ActivePositionsUnfiltered(acct, signal) ==
    Positions(acct)

\* signal.rs:34-39: the strategy's open positions, read once per signal
ActivePositions(acct, signal) ==
    StrategyOpenPositions(acct, signal.strategy_id)

\* TriggerPrice falling back to the embedded price when the lookup fails
TriggerPriceFallback(mkt, signal) ==
    IF signal.is_back_test \/ ~IsSome(LastPrice(mkt, signal.symbol))
    THEN Some(signal.price)
    ELSE LastPrice(mkt, signal.symbol)

\* TriggerPrice reading the Market for replay signals too
TriggerPriceAlwaysLive(mkt, signal) ==
    LastPrice(mkt, signal.symbol)

\* signal.rs:43-47: the trigger price used in all account actions
TriggerPrice(mkt, signal) ==
    IF signal.is_back_test THEN Some(signal.price)
    ELSE LastPrice(mkt, signal.symbol)

\* SettingsOf handing out default settings for an unregistered strategy
SettingsOrDefault(settings_map, strategy_id) ==
    IF strategy_id \in DOMAIN settings_map
    THEN Some(settings_map[strategy_id])
    ELSE Some([max_open_orders |-> 1, margin_usd |-> 1000, leverage |-> 10])

\* signal.rs:49-61: the settings registered for the strategy, if any
SettingsOf(settings_map, strategy_id) ==
    IF strategy_id \in DOMAIN settings_map
    THEN Some(settings_map[strategy_id])
    ELSE None

\* CloseAll closing only the last position of the snapshot
CloseLastOnly(acct, positions, close_price) ==
    IF Len(positions) = 0 THEN acct
    ELSE ClosePosition(acct, positions[Len(positions)].id, close_price)

\* CloseAll recording a Trade for every position of the snapshot and
\* leaving the positions open
RECURSIVE CloseAllKeepingOpen(_, _, _)
CloseAllKeepingOpen(acct, positions, close_price) ==
    IF Len(positions) = 0 THEN acct
    ELSE CloseAllKeepingOpen(
            [acct EXCEPT !.trades = Append(@, [position |-> Head(positions),
                                              close_price |-> close_price])],
            Tail(positions), close_price)

\* signal.rs:68-74: the loop closing every position of the snapshot
RECURSIVE CloseAll(_, _, _)
CloseAll(acct, positions, close_price) ==
    IF Len(positions) = 0 THEN acct
    ELSE CloseAll(ClosePosition(acct, Head(positions).id, close_price),
                  Tail(positions), close_price)

\* signal.rs:66: the signal reverses the last open position
IsReversal(active_positions, signal) ==
    /\ Len(active_positions) > 0
    /\ signal.order_side # active_positions[Len(active_positions)].order_side

\* ShouldOpen with the cap compared by <= instead of <
ShouldOpenOffByOne(active_positions, settings, signal) ==
    IF Len(active_positions) > 0
    THEN /\ signal.order_side
              = active_positions[Len(active_positions)].order_side
         /\ Len(active_positions) <= settings.max_open_orders
    ELSE TRUE

\* signal.rs:64, 80-81, 98-99: the signal opens a position
ShouldOpen(active_positions, settings, signal) ==
    IF Len(active_positions) > 0
    THEN /\ signal.order_side
              = active_positions[Len(active_positions)].order_side
         /\ Len(active_positions) < settings.max_open_orders
    ELSE TRUE

\* signal.rs:84-95, 101-112: the open_position call
OpenFor(acct, settings, signal, price) ==
    OpenPosition(acct, signal.symbol, settings.margin_usd, settings.leverage,
                 signal.order_side, None, price, signal.strategy_id)

\* handle_signal opening under the cap whatever the side of the open
\* positions, and closing nothing
HandleSignalHedging(acct, settings_map, mkt, signal) ==
    LET active_positions == ActivePositions(acct, signal)
        trigger_price == TriggerPrice(mkt, signal)
        settings == SettingsOf(settings_map, signal.strategy_id)
    IN  IF IsSome(settings) /\ IsSome(trigger_price)
           /\ Len(active_positions) < Unwrap(settings).max_open_orders
        THEN OpenFor(acct, Unwrap(settings), signal, Unwrap(trigger_price))
        ELSE acct

\* signal.rs:33-117
HandleSignal(acct, settings_map, mkt, signal) ==
    LET active_positions == ActivePositions(acct, signal)
        trigger_price == TriggerPrice(mkt, signal)
        settings == SettingsOf(settings_map, signal.strategy_id)
    IN
    IF ~IsSome(settings) THEN acct
    ELSE
    LET closed ==
            IF IsReversal(active_positions, signal) /\ IsSome(trigger_price)
            THEN CloseAll(acct, active_positions, Unwrap(trigger_price))
            ELSE acct
    IN  IF ShouldOpen(active_positions, Unwrap(settings), signal)
           /\ IsSome(trigger_price)
        THEN OpenFor(closed, Unwrap(settings), signal, Unwrap(trigger_price))
        ELSE closed

\* signal.rs:119-121 (HashMap::insert)
AddStrategySettings(settings_map, strategy_id, settings) ==
    [s \in DOMAIN settings_map \cup {strategy_id} |->
        IF s = strategy_id THEN settings ELSE settings_map[s]]

\* remove_strategy_settings leaving the map as it is
RemoveStrategySettingsNoop(settings_map, strategy_id) == settings_map

\* signal.rs:123-125 (HashMap::remove)
RemoveStrategySettings(settings_map, strategy_id) ==
    [s \in DOMAIN settings_map \ {strategy_id} |-> settings_map[s]]

(***************************************************************************)
(* Calls on one SignalManager, made one after the other (BackTest.result  *)
(* and the bot's single consumer task both call handle_signal this way).  *)
(***************************************************************************)
\* the consumer task keeping the signal-manager lock after handle_signal
\* has returned, never back in recv
IdleKeepingLock == [pc |-> "returned", signal |-> << >>, active_positions |-> << >>, trigger_price |-> << >>, to_close |-> << >>, locks |-> {"signal_manager"}, io |-> << >>]

\* the consumer task waiting in recv (bot.rs:255)
Idle == [pc |-> "recv", signal |-> None, active_positions |-> << >>,
         trigger_price |-> None, to_close |-> << >>, locks |-> {},
         io |-> None]

\* the kinds of mutation that lead from Account `before` to `after`,
\* attributed to the code `by` that made them
Ops(before, after, by) ==
    (IF after.next_id > before.next_id
     THEN { [op |-> "open", by |-> by] } ELSE { })
    \cup
    (IF Len(after.trades) > Len(before.trades)
     THEN { [op |-> "close", by |-> by] } ELSE { })

Init ==
    /\ account = NewAccount
    /\ active_strategy_settings = << >>
    /\ market = [s \in Symbols |-> None]
    /\ started = {}
    /\ last = None
    /\ strategy_handles = {}
    /\ strategies = {}
    /\ tasks = {}
    /\ channel = << >>
    /\ consumer = Idle
    /\ bot_call = None
    /\ sent = 0
    /\ applied = << >>
    /\ back_test = None
    /\ mutations = {}
    /\ algorithm = None
    /\ file = None
    /\ streams = None

\* handle_signal(signal) for a signal of `signals`; the call is recorded
HandleSignalCall(signals) ==
    /\ \E signal \in signals :
        /\ account' = HandleSignal(account, active_strategy_settings,
                                   market, signal)
        /\ account'.next_id <= MaxPositions + 1
        /\ last' = Some([signal |-> signal,
                         last_price |-> market[signal.symbol],
                         settings |->
                            IF signal.strategy_id
                                 \in DOMAIN active_strategy_settings
                            THEN << active_strategy_settings[
                                        signal.strategy_id] >>
                            ELSE << >>,
                         before |-> account])
        /\ mutations' = IF account' = account THEN mutations
                        ELSE Ops(account, account', "handle_signal")
    /\ UNCHANGED << active_strategy_settings, market, started, live_vars, algorithm, file, streams >>

\* add_strategy_settings(strategy.id, strategy.settings()) for a new strategy
AddSettingsCall(ids) ==
    /\ \E sid \in ids \ started, settings \in SettingsChoices :
        /\ active_strategy_settings' =
              AddStrategySettings(active_strategy_settings, sid, settings)
        /\ started' = started \cup {sid}
    /\ UNCHANGED << account, market, last, live_vars, mutations, algorithm, file, streams >>

\* remove_strategy_settings(strategy_id)
RemoveSettingsCall(ids) ==
    /\ \E sid \in ids :
        /\ sid \in DOMAIN active_strategy_settings
        /\ active_strategy_settings' =
              RemoveStrategySettings(active_strategy_settings, sid)
    /\ UNCHANGED << account, market, started, last, live_vars, mutations, algorithm, file, streams >>

\* Market receives a ticker update: the cached last price of a symbol
UpdateTicker(symbols, prices) ==
    /\ \E symbol \in symbols, price \in prices :
        /\ market[symbol] # Some(price)
        /\ market' = [market EXCEPT ![symbol] = Some(price)]
    /\ UNCHANGED << account, active_strategy_settings, started, last,
                    live_vars, mutations, algorithm, file, streams >>

\* Spec: one strategy, replay and live signals, any prices
Next ==
    \/ HandleSignalCall(SignalMessages({1}, Prices, BOOLEAN))
    \/ AddSettingsCall({1})
    \/ RemoveSettingsCall({1})
    \/ UpdateTicker({SymbolOf(1)}, Prices)

Spec == Init /\ [][Next]_vars

\* SpecTwo: two strategies sharing the Account, replay signals
NextTwo ==
    \/ HandleSignalCall(SignalMessages(StrategyIds, {1}, {TRUE}))
    \/ AddSettingsCall(StrategyIds)
    \/ RemoveSettingsCall(StrategyIds)

SpecTwo == Init /\ [][NextTwo]_vars

(***************************************************************************)
(* BackTest (backer.rs).                                                   *)
(***************************************************************************)
Ignore == "Ignore"
AlgorithmEvalResults == {Long, Short, Ignore}

\* candle ranges: up to MaxKlines candles with open prices `opens` and close
\* prices `closes`, in chronological order (close_time ascending)
KlineRangesOf(opens, closes) ==
    UNION { { [i \in 1 .. n |-> [open |-> f[i][1], close |-> f[i][2],
                                 close_time |-> i]] :
                f \in [1 .. n -> opens \X closes] } :
            n \in 0 .. MaxKlines }

\* the candle ranges of the backtests: the closes vary, they are the prices
\* the signals carry
KlineRanges == KlineRangesOf({1}, Prices)

\* SignalFor taking the candle's open price
SignalAtOpen(strategy, kline, eval_result) ==
    IF eval_result = Ignore THEN << >>
    ELSE << [strategy_id |-> strategy.id,
             order_side |-> eval_result,
             symbol |-> strategy.symbol,
             price |-> kline.open,
             is_back_test |-> TRUE,
             timestamp |-> kline.close_time] >>

\* backer.rs:71-86: the signal of a candle evaluated Long or Short; none for
\* a candle evaluated Ignore
SignalFor(strategy, kline, eval_result) ==
    IF eval_result = Ignore THEN << >>
    ELSE << [strategy_id |-> strategy.id,
             order_side |-> eval_result,
             symbol |-> strategy.symbol,
             price |-> kline.close,
             is_back_test |-> TRUE,
             timestamp |-> kline.close_time] >>

\* backer.rs:68-89: the signals recorded for the candles from the i-th on
RECURSIVE BackTestSignals(_, _, _, _)
BackTestSignals(strategy, klines, evals, i) ==
    IF i > Len(klines) THEN << >>
    ELSE SignalFor(strategy, klines[i], evals[i])
         \o BackTestSignals(strategy, klines, evals, i + 1)

\* backer.rs:129-131: every recorded signal goes through handle_signal
RECURSIVE ReplaySignals(_, _, _, _)
ReplaySignals(acct, settings_map, mkt, signals) ==
    IF Len(signals) = 0 THEN acct
    ELSE ReplaySignals(HandleSignal(acct, settings_map, mkt, Head(signals)),
                       settings_map, mkt, Tail(signals))

\* CloseRemaining flattening a position by opening the opposite one
RECURSIVE CloseRemainingByHedge(_, _)
CloseRemainingByHedge(acct, positions) ==
    IF Len(positions) = 0 THEN acct
    ELSE CloseRemainingByHedge(
            OpenPosition(acct, Head(positions).symbol,
                         Head(positions).margin_usd, Head(positions).leverage,
                         IF Head(positions).order_side = Long
                         THEN Short ELSE Long,
                         None, Head(positions).open_price,
                         Head(positions).strategy_id),
            Tail(positions))

\* backer.rs:133-149: the positions still open are closed by the BackTest
\* itself, each at its own open_price
RECURSIVE CloseRemaining(_, _)
CloseRemaining(acct, positions) ==
    IF Len(positions) = 0 THEN acct
    ELSE CloseRemaining(
            ClosePosition(acct, Head(positions).id,
                          Head(positions).open_price),
            Tail(positions))

\* f64::MAX (backer.rs:113): the largest finite number, above every
\* cumulative sum the trades of a backtest reach
F64_MAX == 2147483647

\* TradeTx.calc_profit(): the realized profit of a Trade, the price delta
\* times the quantity margin * leverage / open_price, signed by the side
\* (specification sections 3 and 4.4)
CalcProfit(trade) ==
    LET position == trade.position
        quantity == (position.margin_usd * position.leverage)
                        \div position.open_price
    IN  IF position.order_side = Long
        THEN (trade.close_price - position.open_price) * quantity
        ELSE (position.open_price - trade.close_price) * quantity

\* backer.rs:100-107: the loop of calc_max_profit
RECURSIVE MaxBalance(_, _, _)
MaxBalance(trades, max_balance, current_balance) ==
    IF Len(trades) = 0 THEN max_balance
    ELSE LET balance == current_balance + CalcProfit(Head(trades))
         IN  MaxBalance(Tail(trades),
                        IF balance > max_balance THEN balance
                        ELSE max_balance,
                        balance)

\* backer.rs:96-110
CalcMaxProfit(trades) == MaxBalance(trades, 0, 0)

\* backer.rs:116-123: the loop of calc_max_drawdown
RECURSIVE MinBalance(_, _, _)
MinBalance(trades, min_balance, current_balance) ==
    IF Len(trades) = 0 THEN min_balance
    ELSE LET balance == current_balance + CalcProfit(Head(trades))
         IN  MinBalance(Tail(trades),
                        IF balance < min_balance THEN balance
                        ELSE min_balance,
                        balance)

\* backer.rs:112-126
CalcMaxDrawdown(trades) == MinBalance(trades, F64_MAX, 0)

\* backer.rs:157: the sum of the trades' profits
RECURSIVE TotalProfit(_)
TotalProfit(trades) ==
    IF Len(trades) = 0 THEN 0
    ELSE CalcProfit(Head(trades)) + TotalProfit(Tail(trades))

\* LongCount counting the trades of Short positions
LongCountSwapped(trades) ==
    Len(SelectSeq(trades, LAMBDA trade : trade.position.order_side = Short))

\* backer.rs:158-161
LongCount(trades) ==
    Len(SelectSeq(trades, LAMBDA trade : trade.position.order_side = Long))

\* backer.rs:152-177: the StrategyResult of a BackTest whose Account made
\* the trades `trades`
StrategyResultOf(bt, trades) ==
    [profit |-> TotalProfit(trades),
     long_count |-> LongCount(trades),
     short_count |-> Len(trades) - LongCount(trades),
     symbol |-> bt.strategy.symbol,
     period_end_price |-> bt.period_end_price,
     period_start_price |-> bt.period_start_price,
     max_drawdown |-> CalcMaxDrawdown(trades),
     max_profit |-> CalcMaxProfit(trades)]

\* Market::new in BackTest::new: a Market that receives no tick
BackTestMarket == [s \in Symbols |-> None]

\* BackTestSettingsMap registering the settings under a fixed id
BackTestSettingsMapFixedId(strategy) ==
    AddStrategySettings(<< >>, 1, strategy.settings)

\* backer.rs:47-48: the SignalManager of a BackTest knows the settings of
\* the BackTest's strategy
BackTestSettingsMap(strategy) ==
    AddStrategySettings(<< >>, strategy.id, strategy.settings)

\* backer.rs:33-58: BackTest::new.  The Account is new; `seed` stands for
\* the position ids it will generate.  The fields below `period_end_price`
\* are not fields of BackTest: the candle range and the position in the
\* loops of run and result, and the history the properties refer to.
BackTestNew(strategy, seed) ==
    [strategy |-> strategy,
     signals |-> << >>,
     settings_map |-> BackTestSettingsMap(strategy),
     market |-> BackTestMarket,
     account |-> [NewAccount EXCEPT !.next_id = seed],
     period_start_price |-> 0,
     period_end_price |-> 0,
     pc |-> "new",
     klines |-> << >>,
     i |-> 1,
     seed |-> seed,
     evals |-> << >>,
     evaluated |-> << >>,
     handled |-> << >>,
     replayed |-> None,
     result |-> None,
     again |-> None,
     first |-> None]

\* the settings a backtested strategy has
BackTestSettings == { s \in SettingsChoices : s.margin_usd = 1000 }

\* BackTest::new(strategy, initial_balance) for a freshly built Strategy
BackTestCreate ==
    /\ back_test = None
    /\ \E sid \in StrategyIds, settings \in BackTestSettings :
        back_test' = Some(BackTestNew([id |-> sid, symbol |-> "BTC-USDT",
                                       settings |-> settings], 1))
    /\ UNCHANGED << core_vars, strategy_handles, strategies, tasks, channel,
                    consumer, bot_call, sent, applied, mutations, algorithm, file, streams >>

\* backer.rs:60-66: run(kline_data) records the period's first open and
\* last close and enters the loop over the candles.  (run_back_test skips
\* run when the Market has no candle range; result then finds what it finds
\* after a run over no candle.)  A second BackTest is given the candles of
\* the first.
BackTestRun ==
    /\ IsSome(back_test)
    /\ Unwrap(back_test).pc = "new"
    /\ \E klines \in KlineRanges :
        /\ IsSome(Unwrap(back_test).first)
              => klines = Unwrap(Unwrap(back_test).first).klines
        /\ back_test' = Some([Unwrap(back_test) EXCEPT
                !.pc = "run",
                !.klines = klines,
                !.period_start_price =
                    IF Len(klines) > 0 THEN klines[1].open ELSE @,
                !.period_end_price =
                    IF Len(klines) > 0 THEN klines[Len(klines)].close
                    ELSE @])
    /\ UNCHANGED << core_vars, strategy_handles, strategies, tasks, channel,
                    consumer, bot_call, sent, applied, mutations, algorithm, file, streams >>

\* backer.rs:68-89: one turn of the loop of run.  The strategy's Algorithm
\* evaluates the candle; its result is an input here.  The Algorithm of a
\* second BackTest, built afresh with the same parameters, returns for the
\* same candles what the first returned (specification section 4.1).
BackTestEvaluate ==
    /\ IsSome(back_test)
    /\ Unwrap(back_test).pc = "run"
    /\ Unwrap(back_test).i <= Len(Unwrap(back_test).klines)
    /\ LET bt == Unwrap(back_test)
           kline == bt.klines[bt.i]
       IN  \E eval_result \in AlgorithmEvalResults :
            /\ IsSome(bt.first)
                  => eval_result = Unwrap(bt.first).evals[bt.i]
            /\ back_test' = Some([bt EXCEPT
                    !.i = @ + 1,
                    !.evals = Append(@, eval_result),
                    !.evaluated = Append(@, kline.close_time),
                    !.signals = @ \o SignalFor(bt.strategy, kline,
                                               eval_result)])
    /\ UNCHANGED << core_vars, strategy_handles, strategies, tasks, channel,
                    consumer, bot_call, sent, applied, mutations, algorithm, file, streams >>

\* backer.rs:129-131: one turn of the first loop of result
BackTestReplay ==
    /\ IsSome(back_test)
    /\ Unwrap(back_test).pc = "run"
    /\ Unwrap(back_test).i > Len(Unwrap(back_test).klines)
    /\ Len(Unwrap(back_test).handled) < Len(Unwrap(back_test).signals)
    /\ LET bt == Unwrap(back_test)
           signal == bt.signals[Len(bt.handled) + 1]
       IN  back_test' = Some([bt EXCEPT
                !.handled = Append(@, signal),
                !.account = HandleSignal(@, bt.settings_map, bt.market,
                                         signal)])
    /\ UNCHANGED << core_vars, strategy_handles, strategies, tasks, channel,
                    consumer, bot_call, sent, applied, mutations, algorithm, file, streams >>

\* backer.rs:133-178: the rest of result, once the signals are replayed
BackTestFinish ==
    /\ IsSome(back_test)
    /\ Unwrap(back_test).pc = "run"
    /\ Unwrap(back_test).i > Len(Unwrap(back_test).klines)
    /\ Len(Unwrap(back_test).handled) = Len(Unwrap(back_test).signals)
    /\ LET bt == Unwrap(back_test)
           closed == CloseRemaining(bt.account, Positions(bt.account))
       IN  back_test' = Some([bt EXCEPT
                !.pc = "done",
                !.replayed = Some(bt.account),
                !.account = closed,
                !.result = Some(StrategyResultOf(bt, Trades(closed)))])
    /\ UNCHANGED << core_vars, strategy_handles, strategies, tasks, channel,
                    consumer, bot_call, sent, applied, mutations, algorithm, file, streams >>

\* the same backtest once more: a Strategy built afresh (another id, the
\* same symbol, settings and parameters), a new BackTest whose Account
\* generates other position ids, the same candles
BackTestAgain ==
    /\ IsSome(back_test)
    /\ Unwrap(back_test).pc = "done"
    /\ ~IsSome(Unwrap(back_test).first)
    /\ LET bt == Unwrap(back_test) IN
        \E sid \in StrategyIds \ {bt.strategy.id} :
            back_test' = Some([BackTestNew([bt.strategy EXCEPT !.id = sid],
                                           bt.account.next_id)
                               EXCEPT !.first =
                                   Some([klines |-> bt.klines,
                                         evals |-> bt.evals,
                                         strategy |-> bt.strategy,
                                         seed |-> bt.seed,
                                         market |-> market,
                                         result |-> Unwrap(bt.result)])])
    /\ UNCHANGED << core_vars, strategy_handles, strategies, tasks, channel,
                    consumer, bot_call, sent, applied, mutations, algorithm, file, streams >>

\* backer.rs:128-178: result called a second time, with no run in
\* between: the recorded signals go through handle_signal again, what is
\* open is closed, and the StrategyResult is computed from the trades
BackTestResultAgain ==
    /\ IsSome(back_test)
    /\ Unwrap(back_test).pc = "done"
    /\ LET bt == Unwrap(back_test)
           replayed == ReplaySignals(bt.account, bt.settings_map, bt.market,
                                     bt.signals)
           closed == CloseRemaining(replayed, Positions(replayed))
       IN  back_test' = Some([bt EXCEPT
                !.pc = "result_again",
                !.account = closed,
                !.again = Some([account |-> bt.account,
                                result |->
                                    StrategyResultOf(bt, Trades(closed))])])
    /\ UNCHANGED << core_vars, strategy_handles, strategies, tasks, channel,
                    consumer, bot_call, sent, applied, mutations, algorithm, file, streams >>

NextBackTest ==
    \/ BackTestCreate
    \/ BackTestRun
    \/ BackTestEvaluate
    \/ BackTestReplay
    \/ BackTestFinish
    \/ BackTestAgain
    \/ BackTestResultAgain
    \/ UpdateTicker({"BTC-USDT"}, {2})

SpecBackTest == Init /\ [][NextBackTest]_vars

\* the trades whose profits calc_max_profit and calc_max_drawdown scan:
\* profits of 100, -50, 200 and -300
MetricTrade(order_side, margin_usd) ==
    [position |-> [id |-> 1, symbol |-> "BTC-USDT", order_side |-> order_side,
                   open_price |-> 1, margin_usd |-> margin_usd,
                   leverage |-> 1, strategy_id |-> 1],
     close_price |-> 2]

MetricTrades ==
    { MetricTrade(Long, 100), MetricTrade(Short, 50),
      MetricTrade(Long, 200), MetricTrade(Short, 300) }

\* the trade lists of up to MaxTrades trades
TradeLists == UNION { [1 .. n -> MetricTrades] : n \in 0 .. MaxTrades }

\* a BackTest whose Account made the trades of one of the trade lists
InitMetrics ==
    /\ account = NewAccount
    /\ active_strategy_settings = << >>
    /\ market = [s \in Symbols |-> None]
    /\ started = {}
    /\ last = None
    /\ strategy_handles = {}
    /\ strategies = {}
    /\ tasks = {}
    /\ channel = << >>
    /\ consumer = Idle
    /\ bot_call = None
    /\ sent = 0
    /\ applied = << >>
    /\ back_test \in { Some([pc |-> "trades", trades |-> trades,
                              max_profit |-> None, max_drawdown |-> None]) :
                         trades \in TradeLists }
    /\ mutations = {}
    /\ algorithm = None
    /\ file = None
    /\ streams = None

\* backer.rs:152-155: result computes the two metrics of the trades
CalcMetrics ==
    /\ IsSome(back_test)
    /\ Unwrap(back_test).pc = "trades"
    /\ back_test' = Some([Unwrap(back_test) EXCEPT
            !.pc = "metrics",
            !.max_profit = Some(CalcMaxProfit(Unwrap(back_test).trades)),
            !.max_drawdown =
                Some(CalcMaxDrawdown(Unwrap(back_test).trades))])
    /\ UNCHANGED << core_vars, strategy_handles, strategies, tasks, channel,
                    consumer, bot_call, sent, applied, mutations, algorithm, file, streams >>

NextMetrics == CalcMetrics

SpecMetrics == InitMetrics /\ [][NextMetrics]_vars

(***************************************************************************)
(* The live bot (bot.rs): strategy tasks send on one channel, one         *)
(* consumer task hands each signal to handle_signal; start_strategy,       *)
(* stop_strategy and run_back_test are called one at a time (the control   *)
(* surface locks the bot for each call).                                   *)
(***************************************************************************)
\* Recv taking the newest signal of the channel
RecvNewest(queue) ==
    << queue[Len(queue)], SubSeq(queue, 1, Len(queue) - 1) >>

\* bot.rs:255: recv() takes the oldest signal of the channel
Recv(queue) == << Head(queue), Tail(queue) >>

\* Strategy::new(name, symbol, interval, tx, market, settings, params):
\* the Strategy, or the AlgorithmError of an unknown algorithm name, an
\* unparseable interval or invalid parameters (specification section 7)
StrategyNew(strategy_id, valid) ==
    IF valid
    THEN Some([id |-> strategy_id, symbol |-> SymbolOf(strategy_id),
               settings |-> ApiSettings])
    ELSE None

\* a RaderBot call: its operation, the strategy it is about (0 when no
\* Strategy came into existence), and its result ("pending" until the call
\* returns)
BotCall(op, strategy_id, close_positions, result) ==
    [op |-> op, strategy_id |-> strategy_id,
     close_positions |-> close_positions, result |-> result]

\* SpawnedTasks starting the evaluation task before the build is checked
SpawnedTasksUnchecked(task_set, strategy, strategy_id) ==
    task_set \cup {strategy_id}

\* bot.rs:119-129: `?` returns the error of Strategy::new; strategy.start()
\* spawns the evaluation task of a Strategy that was built
SpawnedTasks(task_set, strategy, strategy_id) ==
    IF IsSome(strategy) THEN task_set \cup {strategy_id} ELSE task_set

\* bot.rs:119-129: Strategy::new succeeds and strategy.start() spawns the
\* evaluation task; the call then waits for the signal manager
StartStrategySpawn ==
    /\ bot_call = None
    /\ \E sid \in StrategyIds \ started :
        /\ started' = started \cup {sid}
        /\ tasks' = SpawnedTasks(tasks, StrategyNew(sid, TRUE), sid)
        /\ bot_call' = Some(BotCall("start_strategy", sid, FALSE, "pending"))
    /\ UNCHANGED << account, active_strategy_settings, market, last,
                    strategy_handles, strategies, channel, consumer, sent,
                    applied, back_test, mutations, algorithm, file, streams >>

\* bot.rs:134-142: with the signal manager locked, the settings are added;
\* then the handle and the strategy are stored
StartStrategyRegister ==
    /\ IsSome(bot_call)
    /\ Unwrap(bot_call).op = "start_strategy"
    /\ Unwrap(bot_call).result = "pending"
    /\ consumer.pc = "recv"
    /\ LET sid == Unwrap(bot_call).strategy_id IN
        /\ active_strategy_settings' =
              AddStrategySettings(active_strategy_settings, sid, ApiSettings)
        /\ strategy_handles' = strategy_handles \cup {sid}
        /\ strategies' = strategies \cup {sid}
    /\ bot_call' = None
    /\ UNCHANGED << account, market, started, last, tasks, channel, consumer,
                    sent, applied, back_test, mutations, algorithm, file, streams >>

\* bot.rs:119-127: Strategy::new fails and start_strategy returns the error
StartStrategyFail ==
    /\ bot_call = None
    /\ \E sid \in StrategyIds \ started :
        /\ tasks' = SpawnedTasks(tasks, StrategyNew(sid, FALSE), sid)
        /\ bot_call' = Some(BotCall("start_strategy", 0, FALSE, "Err"))
    /\ UNCHANGED << core_vars, strategy_handles, strategies, channel,
                    consumer, sent, applied, back_test, mutations, algorithm, file, streams >>

\* Strategy.stop(account, close_positions) (specification section 4.2):
\* closes the strategy's open positions at the current price when asked to
StrategyStop(acct, mkt, strategy_id, close_positions) ==
    IF close_positions /\ IsSome(LastPrice(mkt, SymbolOf(strategy_id)))
    THEN CloseAll(acct, StrategyOpenPositions(acct, strategy_id),
                  Unwrap(LastPrice(mkt, SymbolOf(strategy_id))))
    ELSE acct

\* bot.rs:154-171: the task is aborted, the strategy stopped, the handle
\* and the strategy removed; the call then waits for the signal manager
StopStrategyStop ==
    /\ bot_call = None
    /\ "account" \notin consumer.locks
    /\ \E sid \in strategy_handles, close_positions \in BOOLEAN :
        /\ tasks' = tasks \ {sid}
        /\ account' = IF sid \in strategies
                      THEN StrategyStop(account, market, sid, close_positions)
                      ELSE account
        /\ mutations' = IF account' = account THEN mutations
                        ELSE Ops(account, account', "Strategy.stop")
        /\ strategy_handles' = strategy_handles \ {sid}
        /\ strategies' = strategies \ {sid}
        /\ bot_call' = Some(BotCall("stop_strategy", sid, close_positions,
                                    "pending"))
    /\ UNCHANGED << active_strategy_settings, market, started, last, channel,
                    consumer, sent, applied, back_test, algorithm, file, streams >>

\* bot.rs:172-178: with the signal manager locked, the settings are
\* removed; stop_strategy returns the summary
StopStrategyRemove ==
    /\ IsSome(bot_call)
    /\ Unwrap(bot_call).op = "stop_strategy"
    /\ Unwrap(bot_call).result = "pending"
    /\ consumer.pc = "recv"
    /\ active_strategy_settings' =
          RemoveStrategySettings(active_strategy_settings,
                                 Unwrap(bot_call).strategy_id)
    /\ bot_call' = None
    /\ UNCHANGED << account, market, started, last, strategy_handles,
                    strategies, tasks, channel, consumer, sent, applied,
                    back_test, mutations, algorithm, file, streams >>

\* bot.rs:154, 178: stop_strategy for an id without a handle returns None
StopStrategyUnknown ==
    /\ bot_call = None
    /\ \E sid \in StrategyIds \ strategy_handles : TRUE
    /\ UNCHANGED vars

\* a running strategy task sends a live signal on strategy_tx
StrategySend ==
    /\ sent < MaxSent
    /\ \E sid \in tasks, side \in OrderSides :
        channel' = Append(channel,
                          [strategy_id |-> sid, order_side |-> side,
                           symbol |-> SymbolOf(sid), price |-> 1,
                           is_back_test |-> FALSE, timestamp |-> sent + 1])
    /\ sent' = sent + 1
    /\ UNCHANGED << core_vars, strategy_handles, strategies, tasks, consumer,
                    bot_call, applied, back_test, mutations, algorithm, file, streams >>

\* bot.rs:255-256 and signal.rs:33-61: the consumer receives a signal, locks
\* the signal manager and enters handle_signal, which reads the strategy's
\* open positions and the trigger price and returns when no settings are
\* registered
ConsumerRecv ==
    /\ consumer.pc = "recv"
    /\ Len(channel) > 0
    /\ LET signal == Recv(channel)[1]
           active_positions == ActivePositions(account, signal)
           trigger_price == TriggerPrice(market, signal)
       IN
        /\ channel' = Recv(channel)[2]
        /\ applied' = Append(applied, signal)
        /\ consumer' =
              IF ~IsSome(SettingsOf(active_strategy_settings,
                                    signal.strategy_id))
              THEN Idle
              ELSE [pc |-> "execute",
                    signal |-> Some(signal),
                    active_positions |-> active_positions,
                    trigger_price |-> trigger_price,
                    to_close |->
                        IF IsReversal(active_positions, signal)
                           /\ IsSome(trigger_price)
                        THEN active_positions ELSE << >>,
                    locks |-> {"signal_manager"},
                    io |-> None]
    /\ UNCHANGED << core_vars, strategy_handles, strategies, tasks, bot_call,
                    sent, back_test, mutations, algorithm, file, streams >>

\* signal.rs:68-74: one turn of the closing loop (the Account lock is taken
\* for each close_position)
ConsumerClose ==
    /\ consumer.pc = "execute"
    /\ Len(consumer.to_close) > 0
    /\ account' = ClosePosition(account, Head(consumer.to_close).id,
                                Unwrap(consumer.trigger_price))
    /\ mutations' = IF account' = account THEN mutations
                    ELSE Ops(account, account', "handle_signal")
    /\ consumer' = [consumer EXCEPT !.to_close = Tail(@)]
    /\ UNCHANGED << active_strategy_settings, market, started, last,
                    strategy_handles, strategies, tasks, channel, bot_call,
                    sent, applied, back_test, algorithm, file, streams >>

\* bingx.rs:172-196: the order BingXApi.open_position posts to the exchange
BingXOrder(symbol, margin_usd, leverage, order_side, open_price) ==
    [method |-> "POST", endpoint |-> "/api/v3/order", symbol |-> symbol,
     side |-> order_side, type |-> "MARKET"]

\* signal.rs:78-114: when the snapshot allows it, handle_signal locks the
\* Account and awaits open_position, holding the lock.  The live Account
\* (bot.rs:76-83, DRY_RUN other than "True") executes through the exchange
\* API: the order is posted and the call waits for the response.
\* Otherwise handle_signal returns and the consumer is back in recv.
ConsumerOpen ==
    /\ consumer.pc = "execute"
    /\ Len(consumer.to_close) = 0
    /\ LET signal == Unwrap(consumer.signal)
           settings == Unwrap(SettingsOf(active_strategy_settings,
                                         signal.strategy_id))
       IN  consumer' =
              IF ShouldOpen(consumer.active_positions, settings, signal)
                 /\ IsSome(consumer.trigger_price)
              THEN [consumer EXCEPT
                      !.pc = "open_position",
                      !.locks = @ \cup {"account"},
                      !.io = Some(BingXOrder(signal.symbol,
                                             settings.margin_usd,
                                             settings.leverage,
                                             signal.order_side,
                                             Unwrap(consumer.trigger_price)))]
              ELSE Idle
    /\ UNCHANGED << core_vars, strategy_handles, strategies, tasks, channel,
                    bot_call, sent, applied, back_test, mutations, algorithm, file, streams >>

\* bingx.rs:196-207 and signal.rs:95, 112: the exchange answers, the
\* Position is built and added to the open set, the Account lock is
\* released; handle_signal returns and the consumer is back in recv
ExchangeResponse ==
    /\ consumer.pc = "open_position"
    /\ LET signal == Unwrap(consumer.signal)
           settings == Unwrap(SettingsOf(active_strategy_settings,
                                         signal.strategy_id))
       IN  account' = OpenFor(account, settings, signal,
                              Unwrap(consumer.trigger_price))
    /\ mutations' = Ops(account, account', "handle_signal")
    /\ consumer' = Idle
    /\ UNCHANGED << active_strategy_settings, market, started, last,
                    strategy_handles, strategies, tasks, channel, bot_call,
                    sent, applied, back_test, algorithm, file, streams >>

\* BackTestAccountRef handing the BackTest the bot's Account
BackTestAccountShared(live_account) == live_account

\* backer.rs:45: the Account of a BackTest is a new one, whatever Account
\* the bot has (the value names the Account object)
BackTestAccountRef(live_account) == "back_test.account"

\* backer.rs:33-58, 60-90, 128-149: the BackTest of `strategy` over
\* `klines`, run at once on the Account `acct`; `evals` are the results of
\* the strategy's Algorithm for the candles.  The value is the Account
\* after the replay and the Account after result.
BackTestAccounts(strategy, acct, klines, evals) ==
    LET signals == BackTestSignals(strategy, klines, evals, 1)
        replayed == ReplaySignals(acct, BackTestSettingsMap(strategy),
                                  BackTestMarket, signals)
    IN  << replayed, CloseRemaining(replayed, Positions(replayed)) >>

\* the candle ranges and evaluation results of the backtests the bot runs
BackTestRuns ==
    UNION { { << klines, evals >> :
                evals \in [DOMAIN klines -> AlgorithmEvalResults] } :
            klines \in KlineRanges }

\* what these backtests do to their Account
BackTestMutations ==
    { LET accts == BackTestAccounts(Unwrap(StrategyNew(1, TRUE)), NewAccount,
                                    run[1], run[2])
      IN  Ops(NewAccount, accts[1], "handle_signal")
          \cup Ops(accts[1], accts[2], "BackTest.result") :
        run \in BackTestRuns }

\* bot.rs:207-244: run_back_test builds the Strategy and the BackTest, runs
\* it over the candle range and returns the result
RunBackTest ==
    /\ bot_call = None
    /\ \E done \in BackTestMutations : mutations' = done
    /\ IF BackTestAccountRef("account") = "account"
       THEN \E run \in BackTestRuns :
                account' = BackTestAccounts(Unwrap(StrategyNew(1, TRUE)),
                                            account, run[1], run[2])[2]
       ELSE account' = account
    /\ bot_call' = Some(BotCall("run_back_test", 0, FALSE, "Ok"))
    /\ UNCHANGED << active_strategy_settings, market, started, last,
                    strategy_handles, strategies, tasks, channel, consumer,
                    sent, applied, back_test, algorithm, file, streams >>

\* bot.rs:218-226: Strategy::new fails and run_back_test returns the error
RunBackTestFail ==
    /\ bot_call = None
    /\ ~IsSome(StrategyNew(1, FALSE))
    /\ bot_call' = Some(BotCall("run_back_test", 0, FALSE, "Err"))
    /\ UNCHANGED << core_vars, strategy_handles, strategies, tasks, channel,
                    consumer, sent, applied, back_test, mutations, algorithm, file, streams >>

\* api/strategy.rs:49-59, 179-189: the control surface answers the
\* request with what the call returned and unlocks the bot
ApiRespond ==
    /\ IsSome(bot_call)
    /\ Unwrap(bot_call).result \in {"Ok", "Err"}
    /\ bot_call' = None
    /\ UNCHANGED << core_vars, strategy_handles, strategies, tasks, channel,
                    consumer, sent, applied, back_test, mutations, algorithm, file, streams >>

\* the Market receives the ticks of one symbol: the live signals of the
\* strategy on the other symbol find no price
NextLive ==
    \/ StartStrategySpawn
    \/ StartStrategyRegister
    \/ StopStrategyStop
    \/ StopStrategyRemove
    \/ StopStrategyUnknown
    \/ StrategySend
    \/ ConsumerRecv
    \/ ConsumerClose
    \/ ConsumerOpen
    \/ ExchangeResponse
    \/ RunBackTest
    \/ RunBackTestFail
    \/ StartStrategyFail
    \/ ApiRespond
    \/ UpdateTicker({SymbolOf(1)}, {2})

SpecLive == Init /\ [][NextLive]_vars

(***************************************************************************)
(* The last handle_signal call: what it found and what it did.            *)
(***************************************************************************)
Called == IsSome(last)
TheSignal == Unwrap(last).signal
Before == Unwrap(last).before
HadSettings == IsSome(Unwrap(last).settings)
TheSettings == Unwrap(Unwrap(last).settings)
\* the strategy's open positions when the call started
ActiveBefore == StrategyOpenPositions(Before, TheSignal.strategy_id)
\* the price the call is to execute at: the embedded price of a replay
\* signal, the Market's last price of the symbol otherwise
ExpectedTrigger ==
    IF TheSignal.is_back_test THEN Some(TheSignal.price)
    ELSE Unwrap(last).last_price
\* positions opened and trades made by the call
NewPositions ==
    SelectSeq(account.positions, LAMBDA p : p.id >= Before.next_id)
NewTrades ==
    SubSeq(account.trades, Len(Before.trades) + 1, Len(account.trades))
Ids(positions) == { positions[i].id : i \in DOMAIN positions }
AllOnSide(positions, side) ==
    \A i \in DOMAIN positions : positions[i].order_side = side
SomeOnOtherSide(positions, side) ==
    \E i \in DOMAIN positions : positions[i].order_side # side

(***************************************************************************)
(* C1: a strategy never has more open positions than its max_open_orders, *)
(* for every max_open_orders the settings admit, 0 included.               *)
(***************************************************************************)
C1_OpenPositionsWithinCap ==
    \A sid \in DOMAIN active_strategy_settings :
        Len(StrategyOpenPositions(account, sid))
            <= active_strategy_settings[sid].max_open_orders

(***************************************************************************)
(* C2: flip policy.  A call that finds exactly one open position, on the  *)
(* side opposite to the signal, with settings registered and a trigger    *)
(* price, makes exactly one Trade (of that position) and opens exactly     *)
(* one position on the signal's side for the strategy.                     *)
(***************************************************************************)
C2_FlipClosesThenOpens ==
    ( /\ Called
      /\ HadSettings
      /\ TheSettings.max_open_orders >= 1
      /\ Len(ActiveBefore) = 1
      /\ SomeOnOtherSide(ActiveBefore, TheSignal.order_side)
      /\ IsSome(ExpectedTrigger) )
    => /\ Len(NewTrades) = 1
       /\ NewTrades[1].position = ActiveBefore[1]
       /\ Len(NewPositions) = 1
       /\ NewPositions[1].order_side = TheSignal.order_side
       /\ NewPositions[1].strategy_id = TheSignal.strategy_id

(***************************************************************************)
(* C3: a signal opposite to the strategy's N open positions, handled with *)
(* settings registered and a trigger price, closes all N: exactly N new    *)
(* Trades, one per position, each at the trigger price, and none of the N  *)
(* positions is left open.                                                 *)
(***************************************************************************)
C3_ReversalClosesAll ==
    ( /\ Called
      /\ HadSettings
      /\ Len(ActiveBefore) > 0
      /\ SomeOnOtherSide(ActiveBefore, TheSignal.order_side)
      /\ IsSome(ExpectedTrigger) )
    => /\ Len(NewTrades) = Len(ActiveBefore)
       /\ { NewTrades[i].position : i \in DOMAIN NewTrades }
            = { ActiveBefore[i] : i \in DOMAIN ActiveBefore }
       /\ \A i \in DOMAIN NewTrades :
            NewTrades[i].close_price = Unwrap(ExpectedTrigger)
       /\ Ids(account.positions) \cap Ids(ActiveBefore) = {}

C3_Witness ==
    /\ Called
    /\ HadSettings
    /\ Len(ActiveBefore) = 2
    /\ SomeOnOtherSide(ActiveBefore, TheSignal.order_side)
    /\ Len(NewTrades) = 2

(***************************************************************************)
(* C4: with settings registered and a trigger price, the call opens       *)
(* exactly one position (the strategy's margin_usd and leverage, the       *)
(* signal's side and symbol, the trigger price) if and only if the         *)
(* strategy had no open position, or its open positions have the signal's  *)
(* side and are fewer than max_open_orders; it opens none otherwise; and   *)
(* at the cap on the signal's side the Account is left unchanged.          *)
(***************************************************************************)
C4_OpensExactlyWhenAllowed ==
    ( /\ Called
      /\ HadSettings
      /\ IsSome(ExpectedTrigger) )
    => LET allowed ==
               \/ Len(ActiveBefore) = 0
               \/ /\ AllOnSide(ActiveBefore, TheSignal.order_side)
                  /\ Len(ActiveBefore) < TheSettings.max_open_orders
       IN  /\ allowed =>
                /\ Len(NewPositions) = 1
                /\ account.positions
                     = Append(Before.positions,
                              [id |-> Before.next_id,
                               symbol |-> TheSignal.symbol,
                               order_side |-> TheSignal.order_side,
                               open_price |-> Unwrap(ExpectedTrigger),
                               margin_usd |-> TheSettings.margin_usd,
                               leverage |-> TheSettings.leverage,
                               strategy_id |-> TheSignal.strategy_id])
                /\ account.trades = Before.trades
           /\ ~allowed => Len(NewPositions) = 0
           /\ ( /\ Len(ActiveBefore) > 0
                /\ AllOnSide(ActiveBefore, TheSignal.order_side)
                /\ Len(ActiveBefore) >= TheSettings.max_open_orders )
              => account = Before

C4_Witness ==
    /\ Called
    /\ HadSettings
    /\ Len(ActiveBefore) = 1
    /\ AllOnSide(ActiveBefore, TheSignal.order_side)
    /\ TheSettings.max_open_orders = 2
    /\ Len(NewPositions) = 1

(***************************************************************************)
(* C5: with no settings registered for the signal's strategy (never       *)
(* added, or removed), the call changes nothing in the Account, whatever   *)
(* the side, price or replay flag.                                         *)
(***************************************************************************)
C5_NoSettingsNoOp ==
    (Called /\ ~HadSettings) => account = Before

C5_Witness ==
    /\ Called
    /\ ~HadSettings
    /\ TheSignal.strategy_id \in started
    /\ Len(ActiveBefore) > 0
    /\ SomeOnOtherSide(ActiveBefore, TheSignal.order_side)
    /\ IsSome(ExpectedTrigger)

(***************************************************************************)
(* C6: a live signal whose last-price lookup returns no price opens and   *)
(* closes nothing, whether the strategy had no position, positions on the  *)
(* signal's side or positions on the other side; the Account the next      *)
(* signal meets is the one this signal met.                                *)
(***************************************************************************)
C6_NoPriceSkips ==
    ( /\ Called
      /\ ~TheSignal.is_back_test
      /\ ~IsSome(Unwrap(last).last_price) )
    => account = Before

C6_Witness ==
    /\ Called
    /\ HadSettings
    /\ ~TheSignal.is_back_test
    /\ ~IsSome(Unwrap(last).last_price)
    /\ Len(ActiveBefore) > 0
    /\ SomeOnOtherSide(ActiveBefore, TheSignal.order_side)

(***************************************************************************)
(* C7: every position opened and every Trade made while handling a replay *)
(* signal carries the signal's embedded price, whatever the Market holds;  *)
(* for a live signal they carry the Market's last price of the signal's    *)
(* symbol.                                                                 *)
(***************************************************************************)
C7_TriggerPriceSource ==
    Called =>
        /\ \A i \in DOMAIN NewPositions :
            /\ IsSome(ExpectedTrigger)
            /\ NewPositions[i].open_price = Unwrap(ExpectedTrigger)
        /\ \A i \in DOMAIN NewTrades :
            /\ IsSome(ExpectedTrigger)
            /\ NewTrades[i].close_price = Unwrap(ExpectedTrigger)

C7_Witness ==
    /\ Called
    /\ TheSignal.is_back_test
    /\ IsSome(Unwrap(last).last_price)
    /\ Unwrap(last).last_price # Some(TheSignal.price)
    /\ Len(NewTrades) > 0

(***************************************************************************)
(* C8: the signals of one strategy reach handle_signal in the order they  *)
(* were sent (timestamp numbers the sends): those handed over so far are   *)
(* in ascending order, none still in the channel was sent before one       *)
(* already handed over, and the one consumer handles one signal at a time, *)
(* the last one handed over.                                               *)
(***************************************************************************)
C8_PerStrategyOrder ==
    /\ \A i, j \in DOMAIN applied :
        (i < j /\ applied[i].strategy_id = applied[j].strategy_id)
            => applied[i].timestamp < applied[j].timestamp
    /\ \A i \in DOMAIN channel, j \in DOMAIN applied :
        channel[i].strategy_id = applied[j].strategy_id
            => applied[j].timestamp < channel[i].timestamp
    /\ consumer.pc = "execute"
        => consumer.signal = Some(applied[Len(applied)])

C8_Witness ==
    /\ Len(applied) = 3
    /\ applied[1].strategy_id = applied[3].strategy_id
    /\ applied[1].strategy_id # applied[2].strategy_id
    /\ consumer.pc = "execute"

C10_OnlyHandleSignalMutates ==
    \A m \in mutations : m.by = "handle_signal"

(***************************************************************************)
(* C10, amended: no position is opened outside handle_signal; outside it  *)
(* positions are only closed, by BackTest.result (what the replay left     *)
(* open) and by Strategy.stop (the stopped strategy's positions).          *)
(***************************************************************************)
C10_OnlyClosesOutsideHandleSignal ==
    \A m \in mutations :
        \/ m.by = "handle_signal"
        \/ /\ m.op = "close"
           /\ m.by \in {"BackTest.result", "Strategy.stop"}

C10_Witness ==
    /\ [op |-> "close", by |-> "Strategy.stop"] \in mutations
    /\ Len(account.trades) > 0

(***************************************************************************)
(* C11: when stop_strategy(id, close_positions = true) returns, whatever  *)
(* the consumer task did meanwhile with the signals of id, the Account     *)
(* holds no open position owned by id (and none is opened for id later).   *)
(* Stated for the step in which the call returns.                          *)
(***************************************************************************)
C11_StopLeavesNoOpenPosition ==
    [][ ( /\ IsSome(bot_call)
          /\ Unwrap(bot_call).op = "stop_strategy"
          /\ Unwrap(bot_call).close_positions
          /\ bot_call' = None )
        => Len(StrategyOpenPositions(account',
                                     Unwrap(bot_call).strategy_id)) = 0 ]_vars

(***************************************************************************)
(* C12: a start_strategy call whose Strategy::new fails returns the error *)
(* and registers nothing: strategy_handles, strategies and the signal     *)
(* manager's settings are as before the call, and no evaluation task has   *)
(* been spawned.                                                           *)
(***************************************************************************)
C12_FailedStartRegistersNothing ==
    [][ ( /\ bot_call = None
          /\ IsSome(bot_call')
          /\ Unwrap(bot_call').op = "start_strategy"
          /\ Unwrap(bot_call').result = "Err" )
        => UNCHANGED << strategy_handles, strategies,
                        active_strategy_settings, tasks >> ]_vars

C12_Witness ==
    /\ IsSome(bot_call)
    /\ Unwrap(bot_call).op = "start_strategy"
    /\ Unwrap(bot_call).result = "Err"
    /\ strategy_handles # {}
    /\ StrategyIds \ started # {}

(***************************************************************************)
(* C13: no network or disk I/O is in progress while the Account lock or   *)
(* the Market lock is held: whenever the consumer task waits for an        *)
(* answer of the exchange, it holds neither lock.                          *)
(***************************************************************************)
C13_NoIoUnderLock ==
    IsSome(consumer.io) => consumer.locks \cap {"account", "market"} = {}

(***************************************************************************)
(* A finished BackTest: what it was given and what it reports.            *)
(***************************************************************************)
BT == Unwrap(back_test)
Done == IsSome(back_test) /\ BT.pc = "done"
\* the positions the replay left open, the positions it opened, the trades
\* of the BackTest's Account
LeftOpen == Positions(Unwrap(BT.replayed))
OpenedCount == Unwrap(BT.replayed).next_id - BT.seed
OpenedOnSide(side) ==
    Len(SelectSeq(BT.account.trades,
                  LAMBDA trade : trade.position.order_side = side))
TradeOf(position) ==
    CHOOSE i \in DOMAIN BT.account.trades :
        BT.account.trades[i].position = position

(***************************************************************************)
(* C14: every position still open after the last signal of a backtest is  *)
(* closed at the final candle's close price: its Trade's close_price is    *)
(* the BackTest's period_end_price.                                        *)
(***************************************************************************)
C14_RemainingClosedAtPeriodEnd ==
    (Done /\ BT.strategy.settings.max_open_orders >= 1) =>
        \A k \in DOMAIN LeftOpen :
            /\ \E i \in DOMAIN BT.account.trades :
                BT.account.trades[i].position = LeftOpen[k]
            /\ BT.account.trades[TradeOf(LeftOpen[k])].close_price
                 = BT.period_end_price

(***************************************************************************)
(* C15: the signals a BackTest hands to handle_signal are, in ascending   *)
(* candle order, exactly one per candle evaluated Long or Short (the       *)
(* candle's close as price, its close_time as timestamp, the replay flag,  *)
(* the strategy's id and symbol) and none for a candle evaluated Ignore;   *)
(* every candle is evaluated exactly once, in order.                       *)
(***************************************************************************)
C15_SignalsInCandleOrder ==
    Done =>
        LET signalled == { i \in DOMAIN BT.klines : BT.evals[i] # Ignore }
        IN  /\ BT.evaluated
                 = [i \in DOMAIN BT.klines |-> BT.klines[i].close_time]
            /\ Len(BT.handled) = Cardinality(signalled)
            /\ \A k \in DOMAIN BT.handled :
                \E i \in signalled :
                    BT.handled[k]
                      = [strategy_id |-> BT.strategy.id,
                         order_side |-> BT.evals[i],
                         symbol |-> BT.strategy.symbol,
                         price |-> BT.klines[i].close,
                         is_back_test |-> TRUE,
                         timestamp |-> BT.klines[i].close_time]
            /\ \A k, l \in DOMAIN BT.handled :
                k < l => BT.handled[k].timestamp < BT.handled[l].timestamp

C15_Witness ==
    /\ Done
    /\ Len(BT.klines) = 3
    /\ BT.evals[2] = Ignore
    /\ Len(BT.handled) = 2
    /\ BT.handled[1].price # BT.handled[2].price
    /\ BT.handled[2].price # BT.klines[3].open

(***************************************************************************)
(* C16: run_back_test, whether it succeeds or fails, leaves the live      *)
(* Account, the live SignalManager's settings, strategy_handles and        *)
(* strategies unchanged, sends nothing on the live signal channel and      *)
(* spawns no strategy task.                                                *)
(***************************************************************************)
C16_BackTestIsolated ==
    [][ ( /\ bot_call = None
          /\ IsSome(bot_call')
          /\ Unwrap(bot_call').op = "run_back_test" )
        => UNCHANGED << account, active_strategy_settings, strategy_handles,
                        strategies, tasks, channel, sent >> ]_vars

C16_Witness ==
    /\ IsSome(bot_call)
    /\ Unwrap(bot_call).op = "run_back_test"
    /\ Unwrap(bot_call).result = "Ok"
    /\ [op |-> "close", by |-> "BackTest.result"] \in mutations
    /\ Len(account.positions) > 0
    /\ strategy_handles # {}

(***************************************************************************)
(* C17: after BackTest.result the BackTest's Account has no open          *)
(* position, and every position opened during the replay became exactly    *)
(* one Trade, counted under its own side: long_count + short_count is the  *)
(* number of positions opened.                                             *)
(***************************************************************************)
C17_EveryPositionOneTrade ==
    Done =>
        /\ Len(Positions(BT.account)) = 0
        /\ Unwrap(BT.result).long_count + Unwrap(BT.result).short_count
             = OpenedCount
        /\ \A id \in BT.seed .. (BT.account.next_id - 1) :
            Cardinality({ i \in DOMAIN BT.account.trades :
                            BT.account.trades[i].position.id = id }) = 1
        /\ Unwrap(BT.result).long_count = OpenedOnSide(Long)
        /\ Unwrap(BT.result).short_count = OpenedOnSide(Short)

C17_Witness ==
    /\ Done
    /\ Unwrap(BT.result).long_count > 0
    /\ Unwrap(BT.result).short_count > 0
    /\ Len(LeftOpen) > 0

(***************************************************************************)
(* The metrics computed of a trade list.                                   *)
(***************************************************************************)
MetricsDone == IsSome(back_test) /\ BT.pc = "metrics"
\* the running cumulative sum after the first k trades (0 before the first)
RECURSIVE RunningSum(_, _)
RunningSum(trades, k) ==
    IF k = 0 THEN 0 ELSE RunningSum(trades, k - 1) + CalcProfit(trades[k])
RunningSums(trades) == { RunningSum(trades, k) : k \in 0 .. Len(trades) }

(***************************************************************************)
(* C18: max_profit is the highest and max_drawdown the lowest value the   *)
(* running cumulative sum of the trade profits reaches, the sum starting   *)
(* at zero and never being reset ([+100, -50, +200, -300] gives 250 and    *)
(* -50).                                                                   *)
(***************************************************************************)
C18_RunningSumExtremes ==
    MetricsDone =>
        /\ Unwrap(BT.max_profit) \in RunningSums(BT.trades)
        /\ \A s \in RunningSums(BT.trades) : s <= Unwrap(BT.max_profit)
        /\ Unwrap(BT.max_drawdown) \in RunningSums(BT.trades)
        /\ \A s \in RunningSums(BT.trades) : Unwrap(BT.max_drawdown) <= s

(***************************************************************************)
(* C19: for every trade list, the empty one and one of positive profits   *)
(* included, max_drawdown is at most 0 and max_profit at least 0.          *)
(***************************************************************************)
C19_ZeroBaseline ==
    MetricsDone =>
        /\ Unwrap(BT.max_drawdown) <= 0
        /\ Unwrap(BT.max_profit) >= 0

MaxCandles == 6

Rat(n, d) == << n, d >>
RatLt(x, y) == x[1] * y[2] < y[1] * x[2]

RECURSIVE SumCloses(_)
SumCloses(klines) ==
    IF klines = << >> THEN 0
    ELSE klines[1].close + SumCloses(Tail(klines))

\* the last n elements of a sequence (all of it when it is shorter)
LastN(seq, n) ==
    IF Len(seq) <= n THEN seq ELSE SubSeq(seq, Len(seq) - n + 1, Len(seq))

\* serde_json values of a parameter: an unsigned integer, or one of the
\* values as_u64 rejects
U64(n) == [kind |-> "u64", n |-> n]
Malformed == { [kind |-> "string", n |-> 0], [kind |-> "negative", n |-> 0],
               [kind |-> "fraction", n |-> 0] }

\* the params objects over `keys`: each key absent or bound to a value
ParamsOver(keys, values) == UNION { [ks -> values] : ks \in SUBSET keys }

\* utils/number.rs:31-39: Ok(n) for a present unsigned integer, Err else
ParseUsizeFromValue(key, value) ==
    IF key \in DOMAIN value /\ value[key].kind = "u64"
    THEN Some(value[key].n) ELSE None

InvalidParams == "InvalidParams"
Ok(x) == [ok |-> TRUE, value |-> x]
Err(e) == [ok |-> FALSE, error |-> e]

\* ta::ExponentialMovingAverage::new(period), as shared by every instance
EmaNewShared(period) ==
    IF IsSome(algorithm) /\ "a" \in DOMAIN Unwrap(algorithm)
       /\ "ema" \in DOMAIN Unwrap(algorithm).a
    THEN Unwrap(algorithm).a.ema
    ELSE [period |-> period, is_new |-> TRUE, current |-> Rat(0, 1)]

\* ma_crossover.rs:33: ExponentialMovingAverage::new(ema_period), a fresh
\* indicator owned by the instance
EmaNew(period) == [period |-> period, is_new |-> TRUE, current |-> Rat(0, 1)]

\* ma_crossover.rs:48-50: ema.next(close): the first input seeds the
\* average, later ones give k * input + (1 - k) * current, k = 2/(period+1)
EmaNext(ema, input) ==
    IF ema.is_new
    THEN [ema EXCEPT !.is_new = FALSE, !.current = Rat(input, 1)]
    ELSE [ema EXCEPT !.current =
            Rat(2 * input * @[2] + (ema.period - 1) * @[1],
                (ema.period + 1) * @[2])]

\* ma_crossover.rs:35: SimpleMovingAverage::new(sma_period)
SmaNew(period) == [period |-> period, window |-> << >>]

\* ma_crossover.rs:52-54: sma.next(close): the mean of the inputs it was
\* given, the last `period` of them at most
SmaNext(sma, input) ==
    [sma EXCEPT !.window = LastN(Append(@, [close |-> input]), sma.period)]

SmaValue(sma) == Rat(SumCloses(sma.window), Len(sma.window))

\* ma_crossover.rs:27-46: both periods must parse and both indicators
\* accept the period (ta rejects the period 0)
CrossoverNew(params) ==
    LET ema_period == ParseUsizeFromValue("ema_period", params)
        sma_period == ParseUsizeFromValue("sma_period", params)
    IN  IF ~IsSome(ema_period) \/ ~IsSome(sma_period)
        THEN Err(InvalidParams)
        ELSE IF Unwrap(ema_period) = 0 \/ Unwrap(sma_period) = 0
        THEN Err(InvalidParams)
        ELSE Ok([variant |-> "EmaSmaCrossover",
                 data_points |-> << >>,
                 ema_period |-> Unwrap(ema_period),
                 sma_period |-> Unwrap(sma_period),
                 ema |-> EmaNew(Unwrap(ema_period)),
                 sma |-> SmaNew(Unwrap(sma_period))])

\* the warm-up test taken against the fast period
WarmedUpByEma(algo) == Len(algo.data_points) >= algo.ema_period

\* ma_crossover.rs:61: data_points.len() >= sma_period
WarmedUp(algo) == Len(algo.data_points) >= algo.sma_period

\* ma_crossover.rs:58-81: evaluate pushes the candle, and once warmed up
\* feeds the close to both indicators and compares them
CrossoverEvaluate(algo, kline) ==
    LET pushed == [algo EXCEPT !.data_points = Append(@, kline)]
        ema == EmaNext(algo.ema, kline.close)
        sma == SmaNext(algo.sma, kline.close)
        close == Rat(kline.close, 1)
    IN  IF WarmedUp(pushed)
        THEN [algo |-> [pushed EXCEPT !.ema = ema, !.sma = sma],
              result |->
                IF RatLt(SmaValue(sma), ema.current) THEN Long
                ELSE IF RatLt(ema.current, SmaValue(sma)) THEN Short
                ELSE IF RatLt(SmaValue(sma), close) THEN Long
                ELSE IF RatLt(close, SmaValue(sma)) THEN Short
                ELSE Ignore]
        ELSE [algo |-> pushed, result |-> Ignore]

Buy == "Buy"
Sell == "Sell"

UnwrapOr(o, default) == IF IsSome(o) THEN Unwrap(o) ELSE default

RsiKeys == { "rsi_period", "short_sma_period", "medium_sma_period", "long_sma_period", "ema_period" }

\* rsi_ema_sma.rs:21-39: every period that does not parse takes its default
\* and the constructor returns Ok
RsiEmaSmaNew(params) ==
    Ok([variant |-> "RsiEmaSma",
        data_points |-> << >>,
        params |-> params,
        rsi_period |-> UnwrapOr(ParseUsizeFromValue("rsi_period", params), 14),
        short_sma_period |->
            UnwrapOr(ParseUsizeFromValue("short_sma_period", params), 5),
        medium_sma_period |->
            UnwrapOr(ParseUsizeFromValue("medium_sma_period", params), 12),
        long_sma_period |->
            UnwrapOr(ParseUsizeFromValue("long_sma_period", params), 26),
        ema_period |-> UnwrapOr(ParseUsizeFromValue("ema_period", params), 9),
        last_ema |-> Rat(0, 1)])

\* rsi_ema_sma.rs:49-57: the gains and the losses of the last `period`
\* close-to-close deltas
RECURSIVE GainsLosses(_, _)
GainsLosses(data_points, i) ==
    IF i = 0 THEN [gains |-> 0, losses |-> 0]
    ELSE LET n == Len(data_points)
             delta == data_points[n - i + 1].close - data_points[n - i].close
             rest == GainsLosses(data_points, i - 1)
         IN  IF delta > 0
             THEN [rest EXCEPT !.gains = @ + delta]
             ELSE [rest EXCEPT !.losses = @ - delta]

\* rsi_ema_sma.rs:41-68: 50 without rsi_period + 1 candles, 100 without
\* losses, else 100 - 100 / (1 + avg_gain / avg_loss)
CalculateRsi(algo) ==
    IF Len(algo.data_points) < algo.rsi_period + 1 THEN Rat(50, 1)
    ELSE LET gl == GainsLosses(algo.data_points, algo.rsi_period)
         IN  IF gl.losses = 0 THEN Rat(100, 1)
             ELSE Rat(100 * gl.gains, gl.gains + gl.losses)

\* rsi_ema_sma.rs:70-81: 0 without `period` candles, else the mean of the
\* last `period` closes
CalculateSma(algo, period) ==
    IF Len(algo.data_points) < period THEN Rat(0, 1)
    ELSE Rat(SumCloses(LastN(algo.data_points, period)), period)

\* rsi_ema_sma.rs:83-99: last_ema is seeded with the close while it is 0,
\* else moved towards the close by k = 2 / (period + 1)
CalculateEma(algo, period) ==
    LET close == algo.data_points[Len(algo.data_points)].close
    IN  IF algo.data_points = << >> THEN Rat(0, 1)
        ELSE IF algo.last_ema[1] = 0 THEN Rat(close, 1)
        ELSE Rat(2 * close * algo.last_ema[2]
                   + (period - 1) * algo.last_ema[1],
                 (period + 1) * algo.last_ema[2])

\* clean_data_points draining a week as soon as more than one is retained
CleanDataPointsEager(data_points, week) ==
    IF Len(data_points) > week
    THEN SubSeq(data_points, week + 1, Len(data_points))
    ELSE data_points

\* rsi_ema_sma.rs:163-171 for a week of `week` minutes: with more than
\* two weeks retained, the oldest week is drained
CleanDataPointsWith(data_points, week) ==
    LET two_weeks_minutes == week * 2
    IN  IF Len(data_points) > two_weeks_minutes
        THEN SubSeq(data_points, week + 1, Len(data_points))
        ELSE data_points

\* rsi_ema_sma.rs:163-171: the week is 10080 minutes
CleanDataPoints(data_points) == CleanDataPointsWith(data_points, 10080)

\* rsi_ema_sma.rs:104-122: evaluate pushes the candle, computes the five
\* indicators and decides; the value is the instance before pruning
RsiEmaSmaDecide(algo, kline) ==
    LET pushed == [algo EXCEPT !.data_points = Append(@, kline)]
        rsi == CalculateRsi(pushed)
        short_sma == CalculateSma(pushed, algo.short_sma_period)
        medium_sma == CalculateSma(pushed, algo.medium_sma_period)
        long_sma == CalculateSma(pushed, algo.long_sma_period)
        ema == CalculateEma(pushed, algo.ema_period)
    IN  [algo |-> [pushed EXCEPT !.last_ema = ema],
         result |->
            IF /\ RatLt(rsi, Rat(30, 1))
               /\ RatLt(medium_sma, short_sma)
               /\ RatLt(long_sma, medium_sma)
               /\ RatLt(ema, short_sma)
            THEN Buy
            ELSE IF /\ RatLt(Rat(70, 1), rsi)
                    /\ RatLt(short_sma, medium_sma)
                    /\ RatLt(medium_sma, long_sma)
                    /\ RatLt(short_sma, ema)
            THEN Sell
            ELSE Ignore]

\* rsi_ema_sma.rs:103-127 for a week of `week` minutes
RsiEmaSmaEvaluateWith(algo, kline, week) ==
    LET decided == RsiEmaSmaDecide(algo, kline)
    IN  [algo |-> [decided.algo EXCEPT
                    !.data_points = CleanDataPointsWith(@, week)],
         result |-> decided.result]

\* rsi_ema_sma.rs:103-127: evaluate decides, then prunes the history
RsiEmaSmaEvaluate(algo, kline) ==
    LET decided == RsiEmaSmaDecide(algo, kline)
    IN  [algo |-> [decided.algo EXCEPT
                    !.data_points = CleanDataPoints(@)],
         result |-> decided.result]

\* set_params with ema_period falling back to its current value as well
SetParamsKeepingEma(algo, params) ==
    [algo |-> [algo EXCEPT
                !.rsi_period =
                    UnwrapOr(ParseUsizeFromValue("rsi_period", params), @),
                !.short_sma_period =
                    UnwrapOr(ParseUsizeFromValue("short_sma_period", params),
                             @),
                !.medium_sma_period =
                    UnwrapOr(ParseUsizeFromValue("medium_sma_period", params),
                             @),
                !.long_sma_period =
                    UnwrapOr(ParseUsizeFromValue("long_sma_period", params),
                             @),
                !.ema_period =
                    UnwrapOr(ParseUsizeFromValue("ema_period", params), @),
                !.params = params],
     result |-> [ok |-> TRUE, value |-> "unit"]]

\* rsi_ema_sma.rs:142-161: every period that does not parse keeps its
\* current value (ema_period takes 9), the payload is stored, Ok is returned
SetParams(algo, params) ==
    [algo |-> [algo EXCEPT
                !.rsi_period =
                    UnwrapOr(ParseUsizeFromValue("rsi_period", params), @),
                !.short_sma_period =
                    UnwrapOr(ParseUsizeFromValue("short_sma_period", params),
                             @),
                !.medium_sma_period =
                    UnwrapOr(ParseUsizeFromValue("medium_sma_period", params),
                             @),
                !.long_sma_period =
                    UnwrapOr(ParseUsizeFromValue("long_sma_period", params),
                             @),
                !.ema_period =
                    UnwrapOr(ParseUsizeFromValue("ema_period", params), 9),
                !.params = params],
     result |-> Ok("unit")]

MaxPeriod == 5

\* the parameters of the algorithms that evaluate candles
CrossoverParams ==
    { [ema_period |-> U64(e), sma_period |-> U64(s)] :
        e \in 1 .. MaxPeriod, s \in 1 .. MaxPeriod }

RsiParams ==
    { [rsi_period |-> U64(p[1]), short_sma_period |-> U64(p[2]),
       medium_sma_period |-> U64(p[3]), long_sma_period |-> U64(p[4]),
       ema_period |-> U64(p[5])] :
        p \in { << 4, 1, 2, MaxCandles, 3 >>, << 2, 1, 2, 3, 1 >> } }

\* the constructor of a variant
AlgorithmNew(variant, params) ==
    IF variant = "EmaSmaCrossover" THEN CrossoverNew(params)
    ELSE RsiEmaSmaNew(params)

\* algorithm.rs:24-80: Algorithm.evaluate, dispatched on the variant
Evaluate(algo, kline) ==
    IF algo.variant = "EmaSmaCrossover" THEN CrossoverEvaluate(algo, kline)
    ELSE RsiEmaSmaEvaluate(algo, kline)

\* the closes a next candle may have: the series starts at MaxCandles and
\* moves by one at most, so it stays positive
NextCloses(klines) ==
    IF klines = << >> THEN { MaxCandles }
    ELSE { klines[Len(klines)].close + d : d \in { -1, 0, 1 } }

\* the candles that may follow `klines`
NextKlines(klines) ==
    IF Len(klines) < MaxCandles
    THEN { [close |-> c, close_time |-> Len(klines) + 1] :
             c \in NextCloses(klines) }
    ELSE {}

\* a first instance is constructed
AlgorithmConstruct ==
    /\ algorithm = None
    /\ \E variant \in { "EmaSmaCrossover", "RsiEmaSma" } :
        \E params \in IF variant = "EmaSmaCrossover" THEN CrossoverParams
                      ELSE RsiParams :
            algorithm' = Some([variant |-> variant, params |-> params,
                               a |-> AlgorithmNew(variant, params).value,
                               b |-> None, b_late |-> FALSE,
                               klines |-> << >>,
                               results_a |-> << >>, results_b |-> << >>])
    /\ UNCHANGED << core_vars, live_vars, mutations, file, streams >>

\* a second instance of the same algorithm is constructed, independently,
\* with equal parameters
AlgorithmConstructSecond ==
    /\ IsSome(algorithm)
    /\ "b" \in DOMAIN Unwrap(algorithm)
    /\ Unwrap(algorithm).b = None
    /\ algorithm' = Some([Unwrap(algorithm) EXCEPT
            !.b = Some(AlgorithmNew(Unwrap(algorithm).variant,
                                    Unwrap(algorithm).params).value),
            !.b_late = Unwrap(algorithm).results_a # << >>])
    /\ UNCHANGED << core_vars, live_vars, mutations, file, streams >>

\* the first instance evaluates its next candle
EvaluateFirst ==
    /\ IsSome(algorithm)
    /\ "a" \in DOMAIN Unwrap(algorithm)
    /\ LET s == Unwrap(algorithm)
       IN  \E kline \in NextKlines(s.klines) :
            LET r == Evaluate(s.a, kline)
            IN  algorithm' = Some([s EXCEPT
                    !.a = r.algo,
                    !.results_a = Append(@, r.result),
                    !.klines = Append(@, kline)])
    /\ UNCHANGED << core_vars, live_vars, mutations, file, streams >>

\* the second instance evaluates its next candle, one the first was fed
EvaluateSecond ==
    /\ IsSome(algorithm)
    /\ "b" \in DOMAIN Unwrap(algorithm)
    /\ IsSome(Unwrap(algorithm).b)
    /\ LET s == Unwrap(algorithm)
       IN  /\ Len(s.results_b) < Len(s.klines)
           /\ LET r == Evaluate(Unwrap(s.b), s.klines[Len(s.results_b) + 1])
              IN  algorithm' = Some([s EXCEPT
                      !.b = Some(r.algo),
                      !.results_b = Append(@, r.result)])
    /\ UNCHANGED << core_vars, live_vars, mutations, file, streams >>

NextAlgorithm ==
    \/ AlgorithmConstruct
    \/ AlgorithmConstructSecond
    \/ EvaluateFirst
    \/ EvaluateSecond

SpecAlgorithm == Init /\ [][NextAlgorithm]_vars

\* the state of the algorithms under study
Alg == Unwrap(algorithm)
Evaluating == IsSome(algorithm) /\ "a" \in DOMAIN Alg

IsCrossover == Evaluating /\ Alg.variant = "EmaSmaCrossover"

(***************************************************************************)
(* C22: EmaSmaCrossover.evaluate returns Ignore for every candle while     *)
(* fewer than sma_period candles are buffered, for any ema_period and any  *)
(* prices, and every evaluated candle, ignored or not, is appended to the  *)
(* buffered history.                                                       *)
(***************************************************************************)
C22_IgnoreDuringWarmUp ==
    IsCrossover =>
        /\ \A n \in 1 .. Len(Alg.results_a) :
            n < Alg.a.sma_period => Alg.results_a[n] = Ignore
        /\ Alg.a.data_points = SubSeq(Alg.klines, 1, Len(Alg.results_a))

\* a slow period of three or more with a shorter fast period: the warm-up
\* candles moved in price and were ignored, a later candle was not
C22_Witness ==
    /\ IsCrossover
    /\ Alg.a.sma_period >= 3
    /\ Alg.a.ema_period < Alg.a.sma_period - 1
    /\ Len(Alg.results_a) > Alg.a.sma_period
    /\ Alg.klines[1].close # Alg.klines[2].close
    /\ Alg.results_a[Len(Alg.results_a)] # Ignore
    /\ Len(Alg.a.data_points) = Len(Alg.results_a)

\* the closes of the candles fed so far rise strictly
Rising == \A i \in 1 .. Len(Alg.klines) - 1 :
            Alg.klines[i].close < Alg.klines[i + 1].close

(***************************************************************************)
(* C23: for a strictly increasing close series and ema_period below        *)
(* sma_period, EmaSmaCrossover emits Short for no candle after warm-up     *)
(* while the series keeps rising.                                          *)
(***************************************************************************)
C23_NoShortWhileRising ==
    IsCrossover /\ Alg.a.ema_period < Alg.a.sma_period /\ Rising =>
        \A n \in 1 .. Len(Alg.results_a) : Alg.results_a[n] # Short

\* the exponential average of the buffered closes: seeded with the first,
\* then k * close + (1 - k) * average for each later one
RECURSIVE EmaOfCloses(_, _)
EmaOfCloses(klines, period) ==
    IF Len(klines) = 1 THEN Rat(klines[1].close, 1)
    ELSE LET prev == EmaOfCloses(SubSeq(klines, 1, Len(klines) - 1), period)
         IN  Rat(2 * klines[Len(klines)].close * prev[2]
                   + (period - 1) * prev[1],
                 (period + 1) * prev[2])

\* the simple mean of the last `period` buffered closes
SmaOfCloses(klines, period) ==
    Rat(SumCloses(LastN(klines, period)), Len(LastN(klines, period)))

\* the result the comparison of the two averages of the buffered history
\* calls for
ResultOfAverages(klines, ema_period, sma_period) ==
    LET ema == EmaOfCloses(klines, ema_period)
        sma == SmaOfCloses(klines, sma_period)
        close == Rat(klines[Len(klines)].close, 1)
    IN  IF RatLt(sma, ema) THEN Long
        ELSE IF RatLt(ema, sma) THEN Short
        ELSE IF RatLt(sma, close) THEN Long
        ELSE IF RatLt(close, sma) THEN Short
        ELSE Ignore

(***************************************************************************)
(* C24: after warm-up evaluate returns Long when EMA > SMA, Short when     *)
(* EMA < SMA, and on EMA = SMA the side of the close against the SMA       *)
(* (Ignore only if they are equal), where SMA is the mean of the last      *)
(* sma_period buffered closes and EMA the exponential average of the       *)
(* buffered closes.                                                        *)
(***************************************************************************)
C24_ResultFollowsAverages ==
    IsCrossover =>
        \A n \in 1 .. Len(Alg.results_a) :
            n >= Alg.a.sma_period =>
                Alg.results_a[n] =
                    ResultOfAverages(SubSeq(Alg.klines, 1, n),
                                     Alg.a.ema_period, Alg.a.sma_period)

\* the longest lookback an EmaSmaCrossover needs
LongestLookback(algo) ==
    IF algo.ema_period > algo.sma_period THEN algo.ema_period
    ELSE algo.sma_period

(***************************************************************************)
(* C29: after any number of evaluate calls the number of retained data     *)
(* points is bounded by a constant that does not grow with the number of   *)
(* candles evaluated: 20160 for RsiEmaSma, and for EmaSmaCrossover the     *)
(* window of its longest lookback.                                         *)
(***************************************************************************)
C29_RetainedBounded ==
    Evaluating =>
        IF Alg.variant = "RsiEmaSma"
        THEN Len(Alg.a.data_points) <= 20160
        ELSE Len(Alg.a.data_points) <= LongestLookback(Alg.a)

(***************************************************************************)
(* AlgorithmBuilder and the algorithms' parameters (strategy/algorithm.rs, *)
(* rsi_ema_sma.rs:21-39 and 142-161).                                      *)
(***************************************************************************)
UnknownInterval == "UnknownInterval"
UnkownName == "UnkownName"

\* the eight names build_algorithm matches (algorithm.rs:114-145)
RegisteredNames == { "EmaSmaCrossover", "SimpleMovingAverage", "ThreeMaCrossover", "Rsi", "RsiEmaSma", "BollingerBands", "Macd", "MacdBollingerBands" }

\* the interval strings given to the builder
Intervals == { "1m", "1h", "", "bogus" }

\* utils::time::build_interval: a duration for a known interval string
BuildInterval(interval) ==
    IF interval \in { "1m", "1h" } THEN Ok(interval) ELSE Err("ParseError")

\* the constructors of the variants whose files are not among the sources:
\* a missing or malformed period is rejected with InvalidParams
VariantNew(variant, params) ==
    IF IsSome(ParseUsizeFromValue("period", params))
       /\ Unwrap(ParseUsizeFromValue("period", params)) > 0
    THEN Ok([variant |-> variant, params |-> params])
    ELSE Err(InvalidParams)

\* build_algorithm matching the name before it parses the interval
BuildAlgorithmNameFirst(algorithm_name, interval, algorithm_params) ==
    IF algorithm_name \notin RegisteredNames THEN Err(UnkownName)
    ELSE IF ~BuildInterval(interval).ok THEN Err(UnknownInterval)
    ELSE IF algorithm_name = "EmaSmaCrossover"
    THEN CrossoverNew(algorithm_params)
    ELSE IF algorithm_name = "RsiEmaSma" THEN VariantNew("Rsi", algorithm_params)
    ELSE VariantNew(algorithm_name, algorithm_params)

\* algorithm.rs:104-150: the interval is parsed first, then the name picks
\* the constructor, whose error `?` returns; "RsiEmaSma" is built by
\* Rsi::new (130-133)
BuildAlgorithm(algorithm_name, interval, algorithm_params) ==
    IF ~BuildInterval(interval).ok THEN Err(UnknownInterval)
    ELSE IF algorithm_name = "EmaSmaCrossover"
    THEN CrossoverNew(algorithm_params)
    ELSE IF algorithm_name = "RsiEmaSma" THEN VariantNew("Rsi", algorithm_params)
    ELSE IF algorithm_name \in RegisteredNames
    THEN VariantNew(algorithm_name, algorithm_params)
    ELSE Err(UnkownName)

\* the values a parameter is given
JsonValues == Malformed \cup { U64(0), U64(2), U64(3) }

\* the params objects given with a name
BuildParams(algorithm_name) ==
    IF algorithm_name = "EmaSmaCrossover"
    THEN ParamsOver({ "ema_period", "sma_period" }, JsonValues)
    ELSE ParamsOver({ "period" }, JsonValues)

\* the params objects an RsiEmaSma is constructed with
RsiNewParams == ParamsOver(RsiKeys, { U64(3), [kind |-> "string", n |-> 0] })

\* the payloads set_params is called with
SetParamsPayloads == ParamsOver({ "rsi_period", "short_sma_period", "ema_period" }, Malformed \cup { U64(0), U64(4) })

\* build_algorithm(name, interval, params) is called
BuildAlgorithmCall ==
    /\ algorithm = None
    /\ \E name \in RegisteredNames \cup { "Unknown", "" },
          interval \in Intervals :
        \E params \in BuildParams(name) :
            algorithm' = Some([op |-> "build_algorithm",
                               name |-> name, interval |-> interval,
                               params |-> params,
                               result |-> BuildAlgorithm(name, interval,
                                                         params)])
    /\ UNCHANGED << core_vars, live_vars, mutations, file, streams >>

\* RsiEmaSma::new(interval, params) is called
RsiEmaSmaNewCall ==
    /\ algorithm = None
    /\ \E params \in RsiNewParams :
        algorithm' = Some([op |-> "new", name |-> "RsiEmaSma",
                           interval |-> "1m", params |-> params,
                           result |-> RsiEmaSmaNew(params)])
    /\ UNCHANGED << core_vars, live_vars, mutations, file, streams >>

\* the constructed RsiEmaSma evaluates a first candle
EvaluateConstructed ==
    /\ IsSome(algorithm)
    /\ "op" \in DOMAIN Unwrap(algorithm)
    /\ Unwrap(algorithm).op = "new"
    /\ Unwrap(algorithm).result.ok
    /\ Unwrap(algorithm).result.value.data_points = << >>
    /\ algorithm' = Some([Unwrap(algorithm) EXCEPT
            !.result.value =
                RsiEmaSmaEvaluate(@, [close |-> 2, close_time |-> 1]).algo])
    /\ UNCHANGED << core_vars, live_vars, mutations, file, streams >>

\* set_params(payload) is called on a constructed RsiEmaSma
SetParamsCall ==
    /\ IsSome(algorithm)
    /\ "op" \in DOMAIN Unwrap(algorithm)
    /\ Unwrap(algorithm).op = "new"
    /\ Unwrap(algorithm).result.ok
    /\ \E payload \in SetParamsPayloads :
        LET algo == Unwrap(algorithm).result.value
            r == SetParams(algo, payload)
        IN  algorithm' = Some([op |-> "set_params", name |-> "RsiEmaSma",
                               interval |-> "1m", params |-> payload,
                               before |-> algo, after |-> r.algo,
                               result |-> r.result])
    /\ UNCHANGED << core_vars, live_vars, mutations, file, streams >>

NextBuild ==
    \/ BuildAlgorithmCall
    \/ RsiEmaSmaNewCall
    \/ EvaluateConstructed
    \/ SetParamsCall

SpecBuild == Init /\ [][NextBuild]_vars

\* the call whose outcome is recorded
Call == Unwrap(algorithm)
Built == IsSome(algorithm) /\ "op" \in DOMAIN Call /\ Call.op = "build_algorithm"
Constructed == IsSome(algorithm) /\ "op" \in DOMAIN Call /\ Call.op = "new"
ParamsSet == IsSome(algorithm) /\ "op" \in DOMAIN Call /\ Call.op = "set_params"

\* a value no period may take: a string, a negative or fractional number,
\* or zero
MalformedPeriod(value) == value \in Malformed \/ value = U64(0)

(***************************************************************************)
(* C25: set_params called with a payload that contains a malformed value   *)
(* (a period that is a string, negative, fractional or zero) fails with    *)
(* InvalidParams, and every configured period and the stored params are    *)
(* what they were before the call.                                         *)
(***************************************************************************)
C25_SetParamsRejectsMalformed ==
    ParamsSet /\ (\E key \in DOMAIN Call.params :
                        MalformedPeriod(Call.params[key]))
        => /\ Call.result = Err(InvalidParams)
           /\ Call.after = Call.before

\* a period of the variant that is missing from the params or malformed
BadPeriod(params, keys, zero_is_bad) ==
    \E key \in keys :
        \/ key \notin DOMAIN params
        \/ params[key] \in Malformed
        \/ zero_is_bad /\ params[key] = U64(0)

(***************************************************************************)
(* C26: constructing an algorithm with a missing or malformed period is    *)
(* rejected with InvalidParams and yields no instance, for EmaSmaCrossover *)
(* (ema_period, sma_period, the value 0 included) and for RsiEmaSma        *)
(* (rsi_period, the three SMA periods, ema_period); no period is replaced  *)
(* by a default.                                                           *)
(***************************************************************************)
C26_ConstructorRejectsBadPeriod ==
    /\ Built /\ Call.name = "EmaSmaCrossover" /\ BuildInterval(Call.interval).ok
       /\ BadPeriod(Call.params, { "ema_period", "sma_period" }, TRUE)
        => Call.result = Err(InvalidParams)
    /\ Constructed /\ BadPeriod(Call.params, RsiKeys, FALSE)
        => Call.result = Err(InvalidParams)

(***************************************************************************)
(* C27: build_algorithm returns UnknownInterval for every unparseable      *)
(* interval whatever the name and parameters, UnknownName for every name   *)
(* outside the eight registered ones when the interval parses, and the     *)
(* variant constructor's error otherwise; a failure returns no instance.   *)
(***************************************************************************)
C27_BuildErrors ==
    Built =>
        /\ ~BuildInterval(Call.interval).ok
            => Call.result = Err(UnknownInterval)
        /\ BuildInterval(Call.interval).ok /\ Call.name \notin RegisteredNames
            => Call.result = Err(UnkownName)
        /\ BuildInterval(Call.interval).ok /\ Call.name \in RegisteredNames
            => /\ Call.result.ok \/ Call.result = Err(InvalidParams)
               /\ Call.name = "EmaSmaCrossover"
                    => Call.result = CrossoverNew(Call.params)
               /\ Call.name # "EmaSmaCrossover"
                    => Call.result.ok
                        = VariantNew(Call.name, Call.params).ok
        /\ ~Call.result.ok => "value" \notin DOMAIN Call.result

\* an unregistered name given with an unparseable interval and with
\* parameters no constructor accepts
C27_Witness ==
    /\ Built
    /\ Call.name = "Unknown"
    /\ Call.interval = "bogus"
    /\ Call.params # << >>
    /\ Call.result = Err(UnknownInterval)

(***************************************************************************)
(* C28: the factory maps each of the eight registered names to its own     *)
(* variant; the name "RsiEmaSma" yields the RsiEmaSma algorithm and not    *)
(* the plain Rsi.                                                          *)
(***************************************************************************)
C28_NameYieldsOwnVariant ==
    Built /\ Call.result.ok => Call.result.value.variant = Call.name

(***************************************************************************)
(* Kline storage (storage/fs.rs): the CSV file of one kline key and one    *)
(* time bucket, None while it does not exist, else its rows in file order. *)
(***************************************************************************)
MaxRows == 4

\* the minutes of a week in the pruning specification, where the 10080 of
\* clean_data_points is scaled down with its 2 : 1 ratio kept
ScaledWeek == 3

OpenTimes == { 1, 2, 3 }

\* the candles given to save_klines: all of one key and one time bucket
StoredKlines == { [open_time |-> t, close |-> c] : t \in OpenTimes, c \in Prices }

\* fs.rs:100-155: one candle of save_klines. A missing file is created with
\* the candle; an existing one is read, and the candle replaces its last
\* row when that row has the candle's open_time, else it is appended
SaveKline(f, kline) ==
    IF ~IsSome(f) THEN Some(<< kline >>)
    ELSE LET existing_klines == Unwrap(f)
             last_index == Len(existing_klines)
         IN  IF existing_klines # << >>
             THEN IF existing_klines[last_index].open_time = kline.open_time
                  THEN Some(Append(SubSeq(existing_klines, 1, last_index - 1),
                                   kline))
                  ELSE Some(Append(existing_klines, kline))
             ELSE Some(<< kline >>)

\* fs.rs:94-158: save_klines saves the candles one after the other
RECURSIVE SaveKlines(_, _)
SaveKlines(f, klines) ==
    IF klines = << >> THEN f
    ELSE SaveKlines(SaveKline(f, klines[1]), Tail(klines))

\* save_klines(klines, kline_key) with one or two candles
SaveKlinesCall ==
    /\ \E n \in 1 .. 2 :
        \E klines \in [1 .. n -> StoredKlines] :
            /\ file' = SaveKlines(file, klines)
            /\ Len(Unwrap(file')) <= MaxRows
    /\ UNCHANGED << core_vars, live_vars, mutations, algorithm, streams >>

NextStorage == SaveKlinesCall

SpecStorage == Init /\ [][NextStorage]_vars

(***************************************************************************)
(* C30: after any sequence of save_klines calls for one key and time       *)
(* bucket, in any order of open_time, the stored file holds at most one    *)
(* row per open_time.                                                      *)
(***************************************************************************)
C30_OneRowPerOpenTime ==
    IsSome(file) =>
        \A i, j \in 1 .. Len(Unwrap(file)) :
            Unwrap(file)[i].open_time = Unwrap(file)[j].open_time => i = j

IsRsiEmaSma == Evaluating /\ Alg.variant = "RsiEmaSma"

\* the largest of a set of numbers
MaxOf(set) == CHOOSE x \in set : \A y \in set : y <= x

\* the candles RsiEmaSma needs before each of its indicators has data
RequiredLookback(algo) ==
    MaxOf({ algo.rsi_period + 1, algo.short_sma_period,
            algo.medium_sma_period, algo.long_sma_period })

(***************************************************************************)
(* C32: RsiEmaSma.evaluate returns Ignore for every candle while the       *)
(* number of buffered candles is below the largest of rsi_period + 1,      *)
(* short_sma_period, medium_sma_period and long_sma_period.                *)
(***************************************************************************)
C32_RsiIgnoreDuringWarmUp ==
    IsRsiEmaSma =>
        \A n \in 1 .. Len(Alg.results_a) :
            n < RequiredLookback(Alg.a) => Alg.results_a[n] = Ignore

\* the ids of the positions the Trades of the account were made from
TradedIds == { account.trades[i].position.id : i \in 1 .. Len(account.trades) }
OpenIds == { account.positions[i].id : i \in 1 .. Len(account.positions) }

(***************************************************************************)
(* C33: after any sequence of handle_signal calls the number of positions  *)
(* opened equals the number open plus the number of Trades; a closed       *)
(* position is no longer open and no position is made a Trade twice.       *)
(***************************************************************************)
C33_OpenedIsOpenPlusTrades ==
    /\ account.next_id - 1 = Len(account.positions) + Len(account.trades)
    /\ OpenIds \cap TradedIds = {}
    /\ Cardinality(TradedIds) = Len(account.trades)
    /\ Cardinality(OpenIds) = Len(account.positions)

\* a reversing signal has closed a position and a later one opened another
C33_Witness ==
    /\ Called
    /\ Len(account.trades) >= 1
    /\ Len(account.positions) >= 1
    /\ account.next_id - 1 = MaxPositions

(***************************************************************************)
(* C34: in every state reachable through handle_signal all open positions  *)
(* owned by one strategy have the same side.                               *)
(***************************************************************************)
C34_OneSidePerStrategy ==
    \A i, j \in 1 .. Len(account.positions) :
        account.positions[i].strategy_id = account.positions[j].strategy_id
            => account.positions[i].order_side
                    = account.positions[j].order_side

\* a strategy holds two open positions after a signal it repeated
C34_Witness ==
    /\ Called
    /\ \E sid \in StrategyIds :
        /\ Len(StrategyOpenPositions(account, sid)) = 2
        /\ TheSignal.strategy_id = sid

\* no start_strategy or stop_strategy call is between its steps
NoCallPending == bot_call = None \/ Unwrap(bot_call).result # "pending"

(***************************************************************************)
(* C35: after every completed start_strategy or stop_strategy call,        *)
(* successful or not, the key sets of strategy_handles, strategies and     *)
(* the signal manager's active_strategy_settings are identical.            *)
(***************************************************************************)
C35_KeySetsAgree ==
    NoCallPending =>
        /\ strategy_handles = strategies
        /\ strategies = DOMAIN active_strategy_settings

\* both strategies were started and one of them has been stopped
C35_Witness ==
    /\ bot_call = None
    /\ started = StrategyIds
    /\ Cardinality(strategy_handles) = 1
    /\ strategies = strategy_handles

(***************************************************************************)
(* C36: every signal a strategy's evaluation task sends between the start  *)
(* of start_strategy and the start of stop_strategy is handled against the *)
(* strategy's registered settings: none is dropped for missing settings.   *)
(* Stated for the step in which the consumer hands a signal of a strategy  *)
(* whose task is running to handle_signal.                                 *)
(***************************************************************************)
C36_NoSignalWithoutSettings ==
    [][ ( /\ Len(applied') > Len(applied)
          /\ applied'[Len(applied')].strategy_id \in tasks )
        => applied'[Len(applied')].strategy_id
                \in DOMAIN active_strategy_settings ]_vars

\* the live bot under fair scheduling: the consumer task keeps running,
\* the exchange answers, and the signal-manager mutex serves its waiters
NextLiveFair ==
    \/ StartStrategySpawn
    \/ StartStrategyRegister
    \/ StopStrategyStop
    \/ StopStrategyRemove
    \/ StopStrategyUnknown
    \/ StrategySend
    \/ ConsumerRecv
    \/ ConsumerClose
    \/ ConsumerOpen
    \/ ExchangeResponse
    \/ UpdateTicker({SymbolOf(1)}, {2})

SpecLiveFair ==
    /\ Init /\ [][NextLiveFair]_vars
    /\ WF_vars(ConsumerRecv)
    /\ WF_vars(ConsumerClose)
    /\ WF_vars(ConsumerOpen)
    /\ WF_vars(ExchangeResponse)
    /\ SF_vars(StartStrategyRegister)
    /\ SF_vars(StopStrategyRemove)

C38_ResultIdempotent ==
    IsSome(back_test) /\ BT.pc = "result_again" =>
        /\ Unwrap(BT.again).result = Unwrap(BT.result)
        /\ Trades(BT.account) = Trades(Unwrap(BT.again).account)
        /\ BT.account.next_id = Unwrap(BT.again).account.next_id

(***************************************************************************)
(* Pruning: one RsiEmaSma instance that prunes its history as evaluate     *)
(* does, for a week of ScaledWeek minutes, next to one fed the same        *)
(* candles with clean_data_points disabled.                                *)
(***************************************************************************)

\* the candles of a pruning run: enough to prune and to evaluate after it
PruneStream == 2 * ScaledWeek + 2

\* the closes of the pruning run's candles
PruneCloses == { 1, 4, 5 }

\* configured periods, none larger than the week
PruneParams ==
    { [rsi_period |-> U64(p[1]), short_sma_period |-> U64(p[2]),
       medium_sma_period |-> U64(p[3]), long_sma_period |-> U64(p[4]),
       ema_period |-> U64(p[5])] :
        p \in { << 1, 2, 1, 3, 1 >>,
                << ScaledWeek, 1, 2, ScaledWeek, 2 >> } }

\* rsi_ema_sma.rs:21-39: the two instances are constructed with equal params
PruneConstruct ==
    /\ algorithm = None
    /\ \E params \in PruneParams :
        algorithm' = Some([pruned |-> RsiEmaSmaNew(params).value,
                           unpruned |-> RsiEmaSmaNew(params).value,
                           stream |-> << >>,
                           results_pruned |-> << >>,
                           results_unpruned |-> << >>])
    /\ UNCHANGED << core_vars, live_vars, mutations, file, streams >>

\* rsi_ema_sma.rs:103-127: both instances evaluate the stream's next candle,
\* the second without the call of clean_data_points at line 124
PruneEvaluate ==
    /\ IsSome(algorithm)
    /\ "pruned" \in DOMAIN Unwrap(algorithm)
    /\ LET s == Unwrap(algorithm)
       IN  /\ Len(s.stream) < PruneStream
           /\ \E c \in PruneCloses :
                LET kline == [close |-> c, close_time |-> Len(s.stream) + 1]
                    with == RsiEmaSmaEvaluateWith(s.pruned, kline, ScaledWeek)
                    without == RsiEmaSmaDecide(s.unpruned, kline)
                IN  algorithm' = Some([s EXCEPT
                        !.pruned = with.algo,
                        !.unpruned = without.algo,
                        !.stream = Append(@, kline),
                        !.results_pruned = Append(@, with.result),
                        !.results_unpruned = Append(@, without.result)])
    /\ UNCHANGED << core_vars, live_vars, mutations, file, streams >>

NextPrune ==
    \/ PruneConstruct
    \/ PruneEvaluate

SpecPrune == Init /\ [][NextPrune]_vars

\* the pruning run, once constructed
Pruning == IsSome(algorithm) /\ "pruned" \in DOMAIN Unwrap(algorithm)

\* C39: with every period within the week, the results of the instance that
\* prunes its history (the oldest week, once more than two weeks are
\* retained) equal, candle for candle, the results of the instance fed the
\* same stream with clean_data_points disabled
C39_PruningTransparent ==
    Pruning =>
        Unwrap(algorithm).results_pruned = Unwrap(algorithm).results_unpruned

\* C39 witness: the pruning instance has drained a week and decided Sell
\* on a candle after that
C39_Witness ==
    /\ Pruning
    /\ LET s == Unwrap(algorithm)
       IN  /\ Len(s.pruned.data_points) < Len(s.unpruned.data_points)
           /\ Len(s.stream) > 2 * ScaledWeek + 1
           /\ s.results_pruned[Len(s.stream)] = Sell

(***************************************************************************)
(* BingXStreamManager (exchange/bingx.rs): the two maps of JoinHandles,    *)
(* stream_metas, and the polling tasks spawned so far, each with the meta  *)
(* it was spawned for, whether it was aborted and the MarketMessages it    *)
(* has sent.  A handle is the index of its task.                           *)
(***************************************************************************)
MaxSpawned == 3
MaxMessages == 2

StreamIds == { "BTC-USDT@ticker", "BTC-USDT@kline_1m" }
StreamTypes == { "Ticker", "Kline" }

\* bingx.rs:304-311
BingXStreamManagerNew ==
    [ticker_streams |-> << >>, kline_streams |-> << >>,
     stream_metas |-> << >>, spawned |-> << >>]

\* HashMap::insert: the value under an existing key is replaced
MapInsert(map, key, value) ==
    [k \in DOMAIN map \cup {key} |-> IF k = key THEN value ELSE map[k]]

\* HashMap::remove
MapRemove(map, key) == [k \in DOMAIN map \ {key} |-> map[k]]

\* JoinHandle::abort on the handles in `handles`; a task already aborted
\* stays aborted
Abort(spawned, handles) ==
    [t \in DOMAIN spawned |->
        IF t \in handles THEN [spawned[t] EXCEPT !.aborted = TRUE]
        ELSE spawned[t]]

\* bingx.rs:316-378: the meta is stored under its id, a polling task is
\* spawned and its handle stored under the id in the map of its stream
\* type. A handle the insert replaces is dropped, which leaves its task
\* running.
OpenStream(manager, stream_meta) ==
    LET thread_handle == Len(manager.spawned) + 1
        spawned == Append(manager.spawned,
                          [meta |-> stream_meta, aborted |-> FALSE,
                           sent |-> 0])
    IN  [manager |->
            IF stream_meta.stream_type = "Ticker"
            THEN [manager EXCEPT
                    !.stream_metas = MapInsert(@, stream_meta.id, stream_meta),
                    !.spawned = spawned,
                    !.ticker_streams =
                        MapInsert(@, stream_meta.id, thread_handle)]
            ELSE [manager EXCEPT
                    !.stream_metas = MapInsert(@, stream_meta.id, stream_meta),
                    !.spawned = spawned,
                    !.kline_streams =
                        MapInsert(@, stream_meta.id, thread_handle)],
         ret |-> Ok(stream_meta.id)]

\* bingx.rs:380-398: the handles stored under the id are aborted and stay
\* in their maps; the meta is removed and returned
CloseStream(manager, stream_id) ==
    LET handles ==
            (IF stream_id \in DOMAIN manager.ticker_streams
             THEN { manager.ticker_streams[stream_id] } ELSE {})
            \cup
            (IF stream_id \in DOMAIN manager.kline_streams
             THEN { manager.kline_streams[stream_id] } ELSE {})
        meta == IF stream_id \in DOMAIN manager.stream_metas
                THEN Some(manager.stream_metas[stream_id]) ELSE None
    IN  [manager |->
            [manager EXCEPT
                !.spawned = Abort(@, handles),
                !.stream_metas = MapRemove(@, stream_id)],
         ret |-> meta]

\* BingXStreamManager::new
StreamManagerConstruct ==
    /\ streams = None
    /\ streams' = Some([manager |-> BingXStreamManagerNew,
                        last |-> None, closed |-> {}])
    /\ UNCHANGED << core_vars, live_vars, mutations, algorithm, file >>

\* a call of open_stream
OpenStreamCall ==
    /\ IsSome(streams)
    /\ LET s == Unwrap(streams)
       IN  /\ Len(s.manager.spawned) < MaxSpawned
           /\ \E id \in StreamIds, stream_type \in StreamTypes :
                LET r == OpenStream(s.manager,
                                    [id |-> id, stream_type |-> stream_type])
                IN  streams' = Some([manager |-> r.manager,
                        last |-> Some([call |-> "open_stream", id |-> id,
                                       ret |-> r.ret,
                                       before |-> s.manager]),
                        closed |-> s.closed \ {id}])
    /\ UNCHANGED << core_vars, live_vars, mutations, algorithm, file >>

\* a call of close_stream
CloseStreamCall ==
    /\ IsSome(streams)
    /\ LET s == Unwrap(streams)
       IN  \E id \in StreamIds :
            LET r == CloseStream(s.manager, id)
            IN  streams' = Some([manager |-> r.manager,
                    last |-> Some([call |-> "close_stream", id |-> id,
                                   ret |-> r.ret,
                                   before |-> s.manager]),
                    closed |-> s.closed \cup {id}])
    /\ UNCHANGED << core_vars, live_vars, mutations, algorithm, file >>

\* bingx.rs:330-342, 350-370: one round of a polling task that was not
\* aborted: it sends a MarketMessage
PollingTaskSend ==
    /\ IsSome(streams)
    /\ LET s == Unwrap(streams)
       IN  \E t \in DOMAIN s.manager.spawned :
            /\ ~s.manager.spawned[t].aborted
            /\ s.manager.spawned[t].sent < MaxMessages
            /\ streams' = Some([s EXCEPT
                    !.manager.spawned[t].sent = @ + 1])
    /\ UNCHANGED << core_vars, live_vars, mutations, algorithm, file >>

NextStream ==
    \/ StreamManagerConstruct
    \/ OpenStreamCall
    \/ CloseStreamCall
    \/ PollingTaskSend

SpecStream == Init /\ [][NextStream]_vars

\* the polling tasks spawned for a stream id that were not aborted
RunningFor(id) ==
    { t \in DOMAIN Unwrap(streams).manager.spawned :
        /\ Unwrap(streams).manager.spawned[t].meta.id = id
        /\ ~Unwrap(streams).manager.spawned[t].aborted }

\* C40: once close_stream(id) has returned, and until open_stream is called
\* with that id again, no polling task spawned for id runs (so none sends)
\* and stream_metas does not contain id, whatever calls came before;
\* close_stream returns the meta stored under id, None for an unknown id
C40_ClosedStreamStopped ==
    IsSome(streams) =>
        /\ \A id \in Unwrap(streams).closed :
            /\ RunningFor(id) = {}
            /\ id \notin DOMAIN Unwrap(streams).manager.stream_metas
        /\ LET call == Unwrap(streams).last
           IN  IsSome(call) /\ Unwrap(call).call = "close_stream" =>
                Unwrap(call).ret =
                    IF Unwrap(call).id
                        \in DOMAIN Unwrap(call).before.stream_metas
                    THEN Some(Unwrap(call).before.stream_metas[Unwrap(call).id])
                    ELSE None

=============================================================================
